---- MODULE Spec2Model ----
(***************************************************************************)
(* Model of the Dart code generator of serde-generate (src/dart.rs).       *)
(*                                                                         *)
(* Strings are modelled as sequences of tokens: the generator only ever    *)
(* builds its output by concatenating fixed fragments with names and with  *)
(* the results of quote_type / mangle_type, so a token sequence keeps      *)
(* exactly the information two emitted strings can differ in.  Emitted     *)
(* Dart code is kept as structured records (one per class / helper), and   *)
(* an interpreter runs those records against a byte wire.                  *)
(***************************************************************************)
EXTENDS Integers, Sequences, FiniteSets, TLC

(***************************************************************************)
(* Bounds of the model.                                                    *)
(***************************************************************************)
MaxContainers == 2
\* largest u8 value held by an in-memory value
MaxVal == 1
\* largest byte of a hand-crafted input wire
MaxByte == 2
\* longest in-memory sequence / map
MaxSeqLen == 2
\* longest hand-crafted input wire
MaxWireLen == 3
\* nesting depth of named references when enumerating in-memory values
MaxDepth == 2

(***************************************************************************)
(* Generic helpers on sequences.                                           *)
(***************************************************************************)
RECURSIVE Flatten(_)
Flatten(ss) == IF ss = <<>> THEN <<>> ELSE Head(ss) \o Flatten(Tail(ss))

Range(s) == {s[i] : i \in DOMAIN s}

\* sequences over S of length at most n
SeqsUpTo(S, n) == UNION {[1..k -> S] : k \in 0..n}

\* index of the first element of s satisfying-by-equality key x under projection, 0 if none
RECURSIVE IndexOfFrom(_, _, _)
IndexOfFrom(s, x, i) ==
    IF i > Len(s) THEN 0
    ELSE IF s[i] = x THEN i ELSE IndexOfFrom(s, x, i + 1)
IndexOf(s, x) == IndexOfFrom(s, x, 1)

(***************************************************************************)
(* serde_reflection::Format / ContainerFormat / VariantFormat / Named.     *)
(***************************************************************************)
FUnit == [tag |-> "Unit"]
FBool == [tag |-> "Bool"]
FU8 == [tag |-> "U8"]
FVariable == [tag |-> "Variable"]
FTypeName(n) == [tag |-> "TypeName", name |-> n]
FOption(f) == [tag |-> "Option", of |-> f]
FSeq(f) == [tag |-> "Seq", of |-> f]
FMap(k, v) == [tag |-> "Map", key |-> k, value |-> v]
FTuple(fs) == [tag |-> "Tuple", items |-> fs]
FTupleArray(c, n) == [tag |-> "TupleArray", content |-> c, size |-> n]

Named(n, v) == [name |-> n, value |-> v]

CUnitStruct == [tag |-> "UnitStruct"]
CNewTypeStruct(f) == [tag |-> "NewTypeStruct", of |-> f]
CTupleStruct(fs) == [tag |-> "TupleStruct", items |-> fs]
CStruct(fields) == [tag |-> "Struct", fields |-> fields]
\* variants: the BTreeMap<u32, Named<VariantFormat>> as a sequence of
\* [index, name, value] in ascending index order
CEnum(variants) == [tag |-> "Enum", variants |-> variants]

VUnit == [tag |-> "Unit"]
VNewType(f) == [tag |-> "NewType", of |-> f]
VTuple(fs) == [tag |-> "Tuple", items |-> fs]
VStruct(fields) == [tag |-> "Struct", fields |-> fields]
VVariable == [tag |-> "Variable"]
Variant(i, n, v) == [index |-> i, name |-> n, value |-> v]

\* the primitive Formats (those with one fixed writer/reader call)
PrimTags == {"Unit", "Bool", "I8", "I16", "I32", "I64", "I128", "U8", "U16",
             "U32", "U64", "U128", "F32", "F64", "Char", "Str", "Bytes"}

\* one decimal digit
Digit(n) ==
    CASE n = 0 -> "0" [] n = 1 -> "1" [] n = 2 -> "2" [] n = 3 -> "3"
      [] n = 4 -> "4" [] n = 5 -> "5" [] n = 6 -> "6" [] n = 7 -> "7"
      [] n = 8 -> "8" [] n = 9 -> "9"

\* "{}" of a number in format!(): its decimal digits, most significant first
RECURSIVE Decimal(_)
Decimal(n) == IF n < 10 THEN <<Digit(n)>> ELSE Decimal(n \div 10) \o <<Digit(n % 10)>>

\* the token a panic!() leaves in place of the string it was to produce;
\* every format!() around it is abandoned, so a string holding it was never built
PANIC == "panic!"
Panicked(tokens) == \E i \in DOMAIN tokens : tokens[i] = PANIC

(***************************************************************************)
(* The registries and configurations generation is run on.  A Registry is  *)
(* a BTreeMap<String, ContainerFormat>: a sequence of [name, format] in    *)
(* ascending name order.  AllNames is in ascending (ASCII) order.          *)
(***************************************************************************)
AllNames == <<"Arr", "Bag", "Dict", "Flags", "Hole", "Link", "Nil", "Node", "Pair", "Shape",
              "Tup", "Void">>

Definition(n) ==
    CASE n = "Arr" -> CNewTypeStruct(FTupleArray(FU8, 2))
      [] n = "Bag" -> CStruct(<<Named("items", FSeq(FOption(FBool))),
                                Named("spare", FOption(FU8))>>)
      [] n = "Dict" -> CNewTypeStruct(FMap(FU8, FUnit))
      [] n = "Flags" -> CNewTypeStruct(FTupleArray(FBool, 2))
      [] n = "Hole" -> CStruct(<<Named("a", FU8), Named("x", FSeq(FVariable))>>)
      [] n = "Link" -> CStruct(<<Named("peer", FTypeName("Remote")),
                                 Named("local", FTypeName("Pair")),
                                 Named("back", FOption(FTypeName("Node")))>>)
      [] n = "Nil" -> CUnitStruct
      [] n = "Node" -> CStruct(<<Named("val", FU8),
                                 Named("next", FOption(FTypeName("Node"))),
                                 Named("via", FOption(FTypeName("Link")))>>)
      [] n = "Pair" -> CStruct(<<Named("a", FU8), Named("b", FOption(FU8))>>)
      [] n = "Shape" -> CEnum(<<Variant(0, "Dot", VUnit),
                                Variant(1, "Ring", VNewType(FOption(FU8))),
                                Variant(3, "Seg", VStruct(<<Named("len", FU8),
                                                            Named("on", FBool)>>)),
                                Variant(4, "Duo", VTuple(<<FU8, FTypeName("Pair")>>))>>)
      [] n = "Tup" -> CTupleStruct(<<FTuple(<<FU8, FBool>>), FTupleArray(FU8, 2)>>)
      [] n = "Void" -> CEnum(<<Variant(0, "Ok", VUnit), Variant(1, "Bad", VVariable)>>)

\* the registry holding the containers whose index in AllNames is in S
RECURSIVE RegistryFrom(_, _)
RegistryFrom(S, i) ==
    IF i > Len(AllNames) THEN <<>>
    ELSE (IF i \in S THEN <<[name |-> AllNames[i], format |-> Definition(AllNames[i])]>>
          ELSE <<>>) \o RegistryFrom(S, i + 1)

Registries ==
    {RegistryFrom(S, 1) : S \in {T \in SUBSET DOMAIN AllNames : Cardinality(T) <= MaxContainers}}

\* CodeGeneratorConfig: module_name, serialization, encodings, external_definitions
\* (external_definitions: namespace -> names, as a set of [namespace, name])
ExternalRemote == {[namespace |-> "ext", name |-> "Remote"]}
Configs ==
    [module_name : {"example"},
     serialization : BOOLEAN,
     encodings : {<<>>, <<"Bcs">>, <<"Bcs", "Bincode">>},
     external_definitions : {ExternalRemote}]

(***************************************************************************)
(* Type Mapper and Expression Emitter.                                     *)
(***************************************************************************)
\* CodeGenerator::new builds external_qualified_names and drops it
\* (Self { config }); the generator it returns holds the config alone
CodeGenerator_new(config) == [config |-> config]

quote_qualified_name(name) == <<name>>

PrimType(tag) ==
    CASE tag = "Unit" -> "Unit" [] tag = "Bool" -> "bool"
      [] tag \in {"I8", "I16", "I32", "I64", "U8", "U16", "U32", "U64", "Char"} -> "int"
      [] tag \in {"I128", "U128"} -> "Int128"
      [] tag = "F32" -> "float" [] tag = "F64" -> "double"
      [] tag = "Str" -> "String" [] tag = "Bytes" -> "Bytes"

\* the suffix of serializer.serialize_<x> / deserializer.deserialize_<x>
PrimSuffix(tag) ==
    CASE tag = "Unit" -> "unit" [] tag = "Bool" -> "bool" [] tag = "I8" -> "i8"
      [] tag = "I16" -> "i16" [] tag = "I32" -> "i32" [] tag = "I64" -> "i64"
      [] tag = "I128" -> "i128" [] tag = "U8" -> "u8" [] tag = "U16" -> "u16"
      [] tag = "U32" -> "u32" [] tag = "U64" -> "u64" [] tag = "U128" -> "u128"
      [] tag = "F32" -> "f32" [] tag = "F64" -> "f64" [] tag = "Char" -> "char"
      [] tag = "Str" -> "str" [] tag = "Bytes" -> "bytes"

RECURSIVE quote_type(_)
RECURSIVE quote_types_from(_, _)
quote_types_from(formats, i) ==
    IF i > Len(formats) THEN <<>>
    ELSE quote_type(formats[i])
         \o (IF i < Len(formats) THEN <<", ">> ELSE <<>>)
         \o quote_types_from(formats, i + 1)
quote_types(formats) == quote_types_from(formats, 1)

quote_type(format) ==
    CASE format.tag = "TypeName" -> quote_qualified_name(format.name)
      [] format.tag \in PrimTags -> <<PrimType(format.tag)>>
      [] format.tag = "Option" -> <<"Optional<">> \o quote_type(format.of) \o <<">">>
      [] format.tag = "Seq" -> <<"List<">> \o quote_type(format.of) \o <<">">>
      [] format.tag = "Map" ->
            <<"Map<">> \o quote_type(format.key) \o <<", ">>
                       \o quote_type(format.value) \o <<">">>
      [] format.tag = "Tuple" ->
            <<"Tuple">> \o Decimal(Len(format.items)) \o <<"<">>
                \o quote_types(format.items) \o <<">">>
      [] format.tag = "TupleArray" -> <<"List<">> \o quote_type(format.content) \o <<">">>
      [] format.tag = "Variable" -> <<PANIC>>

\* common::mangle_type: the canonical signature of a Format
RECURSIVE mangle_type(_)
RECURSIVE mangle_types_from(_, _)
mangle_types_from(formats, i) ==
    IF i > Len(formats) THEN <<>>
    ELSE mangle_type(formats[i]) \o mangle_types_from(formats, i + 1)

mangle_type(format) ==
    CASE format.tag = "TypeName" -> <<format.name>>
      [] format.tag \in PrimTags -> <<PrimSuffix(format.tag)>>
      [] format.tag = "Option" -> <<"option">> \o mangle_type(format.of)
      [] format.tag = "Seq" -> <<"vector">> \o mangle_type(format.of)
      [] format.tag = "Map" ->
            <<"map">> \o mangle_type(format.key) \o <<"to">> \o mangle_type(format.value)
      [] format.tag = "Tuple" ->
            <<"tuple">> \o Decimal(Len(format.items)) \o mangle_types_from(format.items, 1)
      [] format.tag = "TupleArray" ->
            <<"array">> \o Decimal(format.size) \o mangle_type(format.content) \o <<"array">>
      [] format.tag = "Variable" -> <<PANIC>>

\* a quote_serialize_value that writes the fields of a named type in place
quote_serialize_value_inlining(value, format) ==
    CASE format.tag = "TypeName" ->
            [kind |-> "inline", qual |-> <<>>, fn |-> <<"fields", format.name>>,
             arg |-> value]
      [] format.tag \in PrimTags ->
            [kind |-> "prim", qual |-> <<"serializer">>,
             fn |-> <<PrimSuffix(format.tag)>>, arg |-> value]
      [] OTHER ->
            [kind |-> "helper", qual |-> quote_qualified_name("TraitHelpers"),
             fn |-> mangle_type(format), arg |-> value]

\* the statement "<value>.serialize(serializer);", "serializer.serialize_<x>(<value>);"
\* or "<TraitHelpers>.serialize_<sig>(<value>, serializer);"
quote_serialize_value(value, format) ==
    CASE format.tag = "TypeName" ->
            [kind |-> "named", qual |-> <<>>, fn |-> <<"serialize">>, arg |-> value]
      [] format.tag \in PrimTags ->
            [kind |-> "prim", qual |-> <<"serializer">>,
             fn |-> <<PrimSuffix(format.tag)>>, arg |-> value]
      [] OTHER ->
            [kind |-> "helper", qual |-> quote_qualified_name("TraitHelpers"),
             fn |-> mangle_type(format), arg |-> value]

\* the expression "<Name>.deserialize(deserializer)", "deserializer.deserialize_<x>()"
\* or "<TraitHelpers>.deserialize_<sig>(deserializer)"
quote_deserialize(format) ==
    CASE format.tag = "TypeName" ->
            [kind |-> "named", qual |-> quote_qualified_name(format.name),
             fn |-> <<"deserialize">>]
      [] format.tag \in PrimTags ->
            [kind |-> "prim", qual |-> <<"deserializer">>,
             fn |-> <<PrimSuffix(format.tag)>>]
      [] OTHER ->
            [kind |-> "helper", qual |-> quote_qualified_name("TraitHelpers"),
             fn |-> mangle_type(format)]

\* a needs_helper that leaves sequences out
needs_helper_without_seq(format) == format.tag \in {"Option", "Map", "Tuple", "TupleArray"}

needs_helper(format) == format.tag \in {"Option", "Seq", "Map", "Tuple", "TupleArray"}

(***************************************************************************)
(* Helper emission: one record per emitted serialize_<sig> and per emitted  *)
(* deserialize_<sig>.  The fixed text of each template is kept as fields:  *)
(* offsets, iterates, sorts, creates, key_range, checks, stores hold the   *)
(* statement the template writes at that place, with the template's holes  *)
(* ({}, {0}, {1}, {2}), which the record's other fields fill.              *)
(***************************************************************************)
SerializeEach(values, formats) ==
    [i \in DOMAIN formats |-> quote_serialize_value(values[i], formats[i])]

\* lines 523, 528: "assert (value.length == <size>);"
array_length_assertion(size) == size

output_serialization_helper(name, format0) ==
    [sig |-> name,
     type |-> quote_type(format0),
     shape |-> format0.tag,
     body |->
        CASE format0.tag = "Option" ->
                [tag_first |-> TRUE,
                 inner |-> quote_serialize_value(<<"value.value">>, format0.of)]
          [] format0.tag = "Seq" ->
                [writes_len |-> TRUE,
                 item_type |-> quote_type(format0.of),
                 inner |-> quote_serialize_value(<<"item">>, format0.of)]
          [] format0.tag = "Map" ->
                [writes_len |-> TRUE,
                 offsets |-> "List<int> offsets = new List<int>();",
                 iterates |-> "for (Map.Entry<{}, {}> entry : value.entrySet()) {",
                 key_type |-> quote_type(format0.key),
                 value_type |-> quote_type(format0.value),
                 key |-> quote_serialize_value(<<"entry.getKey()">>, format0.key),
                 value |-> quote_serialize_value(<<"entry.getValue()">>, format0.value),
                 sorts |-> "serializer.sort_map_entries(offsets);"]
          [] format0.tag = "Tuple" ->
                [stmts |-> SerializeEach(
                              [i \in DOMAIN format0.items |-> <<"value.item">> \o Decimal(i)],
                              format0.items)]
          [] format0.tag = "TupleArray" ->
                [writes_len |-> FALSE,
                 asserts_len |-> array_length_assertion(format0.size),
                 item_type |-> quote_type(format0.content),
                 inner |-> quote_serialize_value(<<"item">>, format0.content)]
          [] OTHER -> [panic |-> PANIC]]

output_deserialization_helper(name, format0) ==
    [sig |-> name,
     type |-> quote_type(format0),
     shape |-> format0.tag,
     body |->
        CASE format0.tag = "Option" ->
                [inner |-> quote_deserialize(format0.of)]
          [] format0.tag = "Seq" ->
                [reads_len |-> TRUE,
                 item_type |-> quote_type(format0.of),
                 inner |-> quote_deserialize(format0.of)]
          [] format0.tag = "Map" ->
                [reads_len |-> TRUE,
                 creates |-> "Map<{0}, {1}> obj = new HashMap<{0}, {1}>();",
                 key_type |-> quote_type(format0.key),
                 value_type |-> quote_type(format0.value),
                 key_range |-> <<"int key_start = deserializer.get_buffer_offset();",
                                 "{0} key = {2};",
                                 "int key_end = deserializer.get_buffer_offset();">>,
                 key |-> quote_deserialize(format0.key),
                 checks |-> [guard |-> "if (i > 0)",
                             call |-> "deserializer.check_that_key_slices_are_increasing",
                             args |-> <<"new Slice(previous_key_start, previous_key_end)",
                                        "new Slice(key_start, key_end)">>],
                 value |-> quote_deserialize(format0.value),
                 stores |-> "obj.put(key, value);"]
          [] format0.tag = "Tuple" ->
                [items |-> [i \in DOMAIN format0.items |->
                               quote_deserialize(format0.items[i])]]
          [] format0.tag = "TupleArray" ->
                [reads_len |-> FALSE,
                 creates |-> "List<{0}> obj = new List<{0}>.filled({1}, 0);",
                 size |-> format0.size,
                 item_type |-> quote_type(format0.content),
                 inner |-> quote_deserialize(format0.content)]
          [] OTHER -> [panic |-> PANIC]]

(***************************************************************************)
(* Container Emitter.                                                      *)
(***************************************************************************)
\* Encoding::name() and its camel case
EncodingName(encoding) ==
    CASE encoding = "Bcs" -> "bcs" [] encoding = "Bincode" -> "bincode"

\* "Uint8List <enc>Serialize()": new <Enc>Serializer, serialize, get_bytes
output_class_serialize_for_encoding(encoding) ==
    [op |-> <<EncodingName(encoding), "Serialize">>,
     serializer |-> <<encoding, "Serializer">>]

\* an <enc>Deserialize that returns the value without looking at the offset
output_class_deserialize_for_encoding_unchecked(name, encoding) ==
    [op |-> <<EncodingName(encoding), "Deserialize">>,
     class |-> name,
     deserializer |-> <<encoding, "Deserializer">>,
     throws_if |-> "never"]

\* "static <name> <enc>Deserialize(Uint8List input)": new <Enc>Deserializer(input),
\* deserialize, then throw if get_buffer_offset() < input.length
output_class_deserialize_for_encoding(name, encoding) ==
    [op |-> <<EncodingName(encoding), "Deserialize">>,
     class |-> name,
     deserializer |-> <<encoding, "Deserializer">>,
     throws_if |-> "offset < length"]

\* the fields output_container hands on (lines 654-676); redefine is NewTypeStruct
container_fields(format) ==
    CASE format.tag = "UnitStruct" -> <<>>
      [] format.tag = "NewTypeStruct" -> <<Named(<<"value">>, format.of)>>
      [] format.tag = "TupleStruct" ->
            [i \in DOMAIN format.items |-> Named(<<"field">> \o Decimal(i - 1), format.items[i])]
      [] format.tag = "Struct" ->
            [i \in DOMAIN format.fields |->
                Named(<<format.fields[i].name>>, format.fields[i].value)]

\* the fields output_variant hands on (lines 1052-1068)
variant_fields(variant) ==
    CASE variant.tag = "Unit" -> <<>>
      [] variant.tag = "NewType" -> <<Named(<<"value">>, variant.of)>>
      [] variant.tag = "Tuple" ->
            [i \in DOMAIN variant.items |-> Named(<<"field">> \o Decimal(i - 1), variant.items[i])]
      [] variant.tag = "Struct" ->
            [i \in DOMAIN variant.fields |->
                Named(<<variant.fields[i].name>>, variant.fields[i].value)]
      [] variant.tag = "Variable" -> <<>>
\* VariantFormat::Variable: panic!("incorrect value") (line 1067)
variant_panics(variant) == variant.tag = "Variable"

\* quote_type panics on the first field holding a Variable, while the field
\* declarations are written (lines 698-706): nothing after them is emitted
fields_panic(fields) == \E i \in DOMAIN fields : Panicked(quote_type(fields[i].value))

\* to_json: the entry "<name>" : <expression> of the emitted toJson, for one field
to_json(field) ==
    [key |-> field.name,
     expr |->
        CASE field.value.tag \in {"TypeName", "Bytes", "Variable", "Map"} ->
                field.name \o <<".toJson()">>
          [] field.value.tag = "Option" ->
                field.name \o <<".isEmpty?null:">> \o field.name \o <<".value">>
          [] field.value.tag = "Seq" /\ field.value.of.tag = "TypeName" ->
                field.name \o <<".map((f) => f.toJson()).toList()">>
          [] OTHER -> field.name]

\* from_json: the initializer "<name> = <expression>" of the emitted fromJson /
\* loadJson, for one field.  from: "key" when the expression reads json['<key>'],
\* "field" when it reads the field itself; via: the conversion applied to it
from_json(field) ==
    CASE field.value.tag \in {"Bytes", "Variable", "Map"} ->
            [var |-> field.name, from |-> "key", key |-> field.name,
             via |-> <<"Bytes", ".fromJson">>]
      [] field.value.tag = "TypeName" ->
            [var |-> field.name, from |-> "key", key |-> field.name,
             via |-> <<field.value.name, ".fromJson">>]
      [] field.value.tag = "Seq" /\ field.value.of.tag = "TypeName" ->
            [var |-> field.name, from |-> "key", key |-> field.name,
             via |-> <<"List<", field.value.of.name, ">.from", ".map",
                       field.value.of.name, ".fromJson">>]
      [] field.value.tag = "Tuple" ->
            [var |-> field.name, from |-> "field", key |-> field.name, via |-> <<>>]
      [] field.value.tag = "TupleArray" ->
            [var |-> field.name, from |-> "key", key |-> field.name,
             via |-> <<"List<">> \o quote_type(field.value.content) \o <<">.from">>]
      [] OTHER ->
            [var |-> field.name, from |-> "key", key |-> field.name, via |-> <<>>]

\* lines 853-877: the named constructor fromJson (struct) or loadJson (variant)
output_from_json(variant_index, fields, redefine) ==
    [op |-> IF variant_index = <<>> THEN "fromJson" ELSE "loadJson",
     inits |->
        IF fields # <<>> /\ redefine
        THEN <<[var |-> fields[1].name, from |-> "json", key |-> <<>>, via |-> <<>>]>>
        ELSE [i \in DOMAIN fields |-> from_json(fields[i])]]

\* lines 879-895: toJson, an object of one entry per field (and the variant's
\* "type" and "type_name"), or the bare field of a redefined class
output_to_json(variant_index, fields, redefine, actual_name) ==
    IF ~redefine
    THEN [kind |-> "object",
          entries |-> [i \in DOMAIN fields |-> to_json(fields[i])]
                      \o (IF variant_index = <<>> THEN <<>>
                          ELSE <<[key |-> <<"type">>,
                                  expr |-> Decimal(variant_index[1])],
                                 [key |-> <<"type_name">>,
                                  expr |-> <<"\"", actual_name, "\"">>]>>)]
    ELSE IF fields # <<>>
    THEN [kind |-> "bare", entries |-> <<[key |-> <<>>, expr |-> fields[1].name]>>]
    ELSE [kind |-> "none", entries |-> <<>>]

\* "serializer.serialize_variant_index(<index>);"
variant_index_statement(index) ==
    [kind |-> "variant_index", qual |-> <<"serializer">>,
     fn |-> <<"variant_index">>, arg |-> Decimal(index)]

\* a serialize body that writes the fields before the tag
serialize_body_tag_last(variant_index, fields) ==
    [i \in DOMAIN fields |-> quote_serialize_value(fields[i].name, fields[i].value)]
    \o (IF variant_index = <<>> THEN <<>>
        ELSE <<variant_index_statement(variant_index[1])>>)

\* lines 735-744: the statements of "void serialize(BinarySerializer serializer)",
\* the tag of a variant first, then one statement per field
serialize_body(variant_index, fields) ==
    (IF variant_index = <<>> THEN <<>>
     ELSE <<variant_index_statement(variant_index[1])>>)
    \o [i \in DOMAIN fields |-> quote_serialize_value(fields[i].name, fields[i].value)]

\* lines 771-778: one "var <field> = <deserialize expression>;" per field
deserialize_reads_reversed(fields) ==
    [i \in DOMAIN fields |->
        [var |-> fields[Len(fields) + 1 - i].name,
         expr |-> quote_deserialize(fields[Len(fields) + 1 - i].value)]]

deserialize_reads(fields) ==
    [i \in DOMAIN fields |->
        [var |-> fields[i].name, expr |-> quote_deserialize(fields[i].value)]]

\* the class output_struct_or_variant_container writes.  variant_base and
\* variant_index are Options: <<>> for None, <<x>> for Some(x)
output_struct_or_variant_container(config, variant_base, variant_index, name, fields, redefine, actual_name) ==
    [kind |-> "class",
     name |-> name,
     base |-> variant_base,
     fields |-> [i \in DOMAIN fields |->
                    [type |-> quote_type(fields[i].value), name |-> fields[i].name]],
     ctor |-> [params |-> [i \in DOMAIN fields |->
                              [type |-> quote_type(fields[i].value),
                               name |-> fields[i].name]],
               asserts_non_null |-> [i \in DOMAIN fields |-> fields[i].name],
               assigns |-> [i \in DOMAIN fields |-> fields[i].name]],
     serialize |->
        IF config.serialization
        THEN <<[tag |-> variant_index,
                stmts |-> [i \in DOMAIN fields |->
                              quote_serialize_value(fields[i].name, fields[i].value)],
                body |-> serialize_body(variant_index, fields)]>>
        ELSE <<>>,
     ser_enc |->
        IF config.serialization /\ variant_index = <<>>
        THEN [i \in DOMAIN config.encodings |->
                 output_class_serialize_for_encoding(config.encodings[i])]
        ELSE <<>>,
     deserialize |->
        IF config.serialization
        THEN <<[op |-> IF variant_index = <<>> THEN "deserialize" ELSE "load",
                reads |-> deserialize_reads(fields),
                returns |-> [class |-> name,
                             args |-> [i \in DOMAIN fields |-> fields[i].name]]]>>
        ELSE <<>>,
     deser_enc |->
        IF config.serialization /\ variant_index = <<>>
        THEN [i \in DOMAIN config.encodings |->
                 output_class_deserialize_for_encoding(name, config.encodings[i])]
        ELSE <<>>,
     from_json |-> output_from_json(variant_index, fields, redefine),
     to_json |-> output_to_json(variant_index, fields, redefine, actual_name)]

\* the name "<base><variant>Item" of a variant's class
variant_class_name(base, variant_name) == <<base, variant_name, "Item">>

\* output_variant: the class of one variant
output_variant(config, base, index, name, variant, actual_name) ==
    output_struct_or_variant_container(config, <<base>>, <<index>>, name,
                                       variant_fields(variant), FALSE, actual_name)

output_variant_panics(variant) ==
    variant_panics(variant) \/ fields_panic(variant_fields(variant))

\* lines 965-971: one "case <index>: return <name><variant>Item.load(deserializer);"
\* per entry of the variant map
dispatcher_cases_without_last(name, variants) ==
    [i \in 1..(Len(variants) - 1) |->
        [index |-> variants[i].index,
         target |-> variant_class_name(name, variants[i].name),
         op |-> "load"]]

dispatcher_cases(name, variants) ==
    [i \in DOMAIN variants |->
        [index |-> variants[i].index,
         target |-> variant_class_name(name, variants[i].name),
         op |-> "load"]]

\* the abstract class output_enum_container writes before the variants
\* JSON cases that each hand over to the class of the variant that follows
json_dispatcher_cases_shifted(name, variants) ==
    [i \in DOMAIN variants |->
        [index |-> variants[i].index,
         target |-> variant_class_name(name, variants[(i % Len(variants)) + 1].name),
         op |-> "loadJson"]]

\* lines 997-1003: one "case <index>: return <name><variant>Item.loadJson(json);"
\* per entry of the variant map
json_dispatcher_cases(name, variants) ==
    [i \in DOMAIN variants |->
        [index |-> variants[i].index,
         target |-> variant_class_name(name, variants[i].name),
         op |-> "loadJson"]]

output_enum_class(config, name, variants) ==
    [kind |-> "enum",
     name |-> <<name>>,
     dispatcher |->
        IF config.serialization
        THEN <<[reads |-> <<"variant_index">>,
                cases |-> dispatcher_cases(name, variants),
                default |-> "throw Unknown variant index"]>>
        ELSE <<>>,
     ser_enc |->
        IF config.serialization
        THEN [i \in DOMAIN config.encodings |->
                 output_class_serialize_for_encoding(config.encodings[i])]
        ELSE <<>>,
     deser_enc |->
        IF config.serialization
        THEN [i \in DOMAIN config.encodings |->
                 output_class_deserialize_for_encoding(<<name>>, config.encodings[i])]
        ELSE <<>>,
     json_dispatcher |->
        IF config.serialization
        THEN <<[reads |-> <<"type">>,
                cases |-> json_dispatcher_cases(name, variants),
                default |-> "throw Unknown type"]>>
        ELSE <<>>]

\* the index of the first field whose type quote_type panics on
first_panicking_field(fields) ==
    CHOOSE i \in DOMAIN fields :
       /\ Panicked(quote_type(fields[i].value))
       /\ \A j \in 1..(i - 1) : ~Panicked(quote_type(fields[j].value))

\* what output_struct_or_variant_container has written when quote_type panics in
\* the field loop (lines 690-705): the class header and the declarations of the
\* fields before the one that panics; the class is never closed
output_struct_or_variant_container_until_panic(variant_base, name, fields) ==
    [kind |-> "partial",
     name |-> name,
     base |-> variant_base,
     fields |-> [i \in 1..(first_panicking_field(fields) - 1) |->
                    [type |-> quote_type(fields[i].value), name |-> fields[i].name]]]

\* output_variants: the variants' classes in tag order, up to the first that
\* panics: output_variant writes nothing for a Variable variant, and the start
\* of the class for a variant with a field quote_type panics on
RECURSIVE output_variants_from(_, _, _, _)
output_variants_from(config, base, variants, i) ==
    IF i > Len(variants) \/ variant_panics(variants[i].value) THEN <<>>
    ELSE IF fields_panic(variant_fields(variants[i].value))
    THEN <<output_struct_or_variant_container_until_panic(<<base>>,
               variant_class_name(base, variants[i].name),
               variant_fields(variants[i].value))>>
    ELSE <<output_variant(config, base, variants[i].index,
                          variant_class_name(base, variants[i].name),
                          variants[i].value, variants[i].name)>>
         \o output_variants_from(config, base, variants, i + 1)
output_variants(config, base, variants) == output_variants_from(config, base, variants, 1)

output_enum_container(config, name, variants) ==
    <<output_enum_class(config, name, variants)>> \o output_variants(config, name, variants)

\* whether emitting the container panics part-way
output_container_panics(format) ==
    IF format.tag = "Enum"
    THEN \E i \in DOMAIN format.variants : output_variant_panics(format.variants[i].value)
    ELSE fields_panic(container_fields(format))

\* the classes output_container writes into the container's file (when it
\* panics: those completed before the panic and the start of the one it panics in)
output_container(config, name, format) ==
    IF format.tag = "Enum" THEN output_enum_container(config, name, format.variants)
    ELSE IF fields_panic(container_fields(format))
    THEN <<output_struct_or_variant_container_until_panic(<<>>, <<name>>,
               container_fields(format))>>
    ELSE <<output_struct_or_variant_container(config, <<>>, <<>>, <<name>>,
                container_fields(format), format.tag = "NewTypeStruct", name)>>

(***************************************************************************)
(* Helper Deduplication Engine.                                            *)
(***************************************************************************)
\* FormatHolder::visit of a Format: the closure is called on every nested
\* Format, children first; a Variable makes the visit return Err
RECURSIVE visit_format(_)
RECURSIVE visit_formats_from(_, _)
visit_formats_from(formats, i) ==
    IF i > Len(formats) THEN <<>>
    ELSE visit_format(formats[i]) \o visit_formats_from(formats, i + 1)

visit_format(format) ==
    CASE format.tag \in {"Option", "Seq"} -> visit_format(format.of) \o <<format>>
      [] format.tag = "TupleArray" -> visit_format(format.content) \o <<format>>
      [] format.tag = "Map" ->
            visit_format(format.key) \o visit_format(format.value) \o <<format>>
      [] format.tag = "Tuple" -> visit_formats_from(format.items, 1) \o <<format>>
      [] OTHER -> <<format>>

RECURSIVE visit_format_err(_)
visit_format_err(format) ==
    CASE format.tag = "Variable" -> TRUE
      [] format.tag \in {"Option", "Seq"} -> visit_format_err(format.of)
      [] format.tag = "TupleArray" -> visit_format_err(format.content)
      [] format.tag = "Map" -> visit_format_err(format.key) \/ visit_format_err(format.value)
      [] format.tag = "Tuple" ->
            \E i \in DOMAIN format.items : visit_format_err(format.items[i])
      [] OTHER -> FALSE

\* the Formats a VariantFormat / ContainerFormat holds directly
variant_formats(variant) ==
    CASE variant.tag = "NewType" -> <<variant.of>>
      [] variant.tag = "Tuple" -> variant.items
      [] variant.tag = "Struct" -> [i \in DOMAIN variant.fields |-> variant.fields[i].value]
      [] OTHER -> <<>>

container_formats(format) ==
    CASE format.tag = "NewTypeStruct" -> <<format.of>>
      [] format.tag = "TupleStruct" -> format.items
      [] format.tag = "Struct" -> [i \in DOMAIN format.fields |-> format.fields[i].value]
      [] format.tag = "Enum" ->
            Flatten([i \in DOMAIN format.variants |->
                        variant_formats(format.variants[i].value)])
      [] OTHER -> <<>>

\* FormatHolder::visit of a ContainerFormat
visit_container(format) == visit_formats_from(container_formats(format), 1)

visit_container_err(format) ==
    \/ \E i \in DOMAIN container_formats(format) :
          visit_format_err(container_formats(format)[i])
    \/ /\ format.tag = "Enum"
       /\ \E i \in DOMAIN format.variants : format.variants[i].value.tag = "Variable"

\* byte order of the tokens signatures are built from
TokenOrder ==
    <<"0", "1", "2", "3", "4", "5", "6", "7", "8", "9",
      "Bag", "Dict", "Hole", "Link", "Nil", "Node", "Pair", "Remote", "Shape", "Tup",
      "Void", "array", "bool", "bytes", "char", "f32", "f64", "i128", "i16", "i32",
      "i64", "i8", "map", "option", "str", "to", "tuple", "u128", "u16", "u32", "u64",
      "u8", "unit", "vector">>
TokenRank(t) == IndexOf(TokenOrder, t)

\* String's Ord on two signatures
RECURSIVE SigLess(_, _)
SigLess(a, b) ==
    IF b = <<>> THEN FALSE
    ELSE IF a = <<>> THEN TRUE
    ELSE IF Head(a) = Head(b) THEN SigLess(Tail(a), Tail(b))
    ELSE TokenRank(Head(a)) < TokenRank(Head(b))

\* an insert that keeps the entries in the order of their first insertion
BTreeMapInsert_in_arrival_order(m, k, v) ==
    IF \E i \in DOMAIN m : m[i].key = k
    THEN [i \in DOMAIN m |-> IF m[i].key = k THEN [key |-> k, value |-> v] ELSE m[i]]
    ELSE Append(m, [key |-> k, value |-> v])

\* BTreeMap::insert on a map kept as a sequence of [key, value] in key order
RECURSIVE BTreeMapInsert(_, _, _)
BTreeMapInsert(m, k, v) ==
    IF m = <<>> THEN <<[key |-> k, value |-> v]>>
    ELSE IF Head(m).key = k THEN <<[key |-> k, value |-> v]>> \o Tail(m)
    ELSE IF SigLess(k, Head(m).key) THEN <<[key |-> k, value |-> v]>> \o m
    ELSE <<Head(m)>> \o BTreeMapInsert(Tail(m), k, v)

\* the closure of output_trait_helpers applied to the visited Formats in turn
RECURSIVE InsertVisited(_, _, _)
\* (each call of the closure leaves a table, and the next call starts from it)
InsertVisited(subtypes0, visited, i) ==
    IF i > Len(visited) THEN subtypes0
    ELSE CHOOSE table \in
            {InsertVisited(next, visited, i + 1) :
                next \in {IF needs_helper(visited[i])
                          THEN BTreeMapInsert(subtypes0, mangle_type(visited[i]), visited[i])
                          ELSE subtypes0}} : TRUE

\* a write loop that stops before the last entry of the table
output_trait_helpers_emit_without_last(subtypes0) ==
    [i \in 1..(Len(subtypes0) - 1) |->
        [ser |-> output_serialization_helper(subtypes0[i].key, subtypes0[i].value),
         de |-> output_deserialization_helper(subtypes0[i].key, subtypes0[i].value)]]

\* the helper pairs output_trait_helpers writes, in the table's order
output_trait_helpers_emit(subtypes0) ==
    [i \in DOMAIN subtypes0 |->
        [ser |-> output_serialization_helper(subtypes0[i].key, subtypes0[i].value),
         de |-> output_deserialization_helper(subtypes0[i].key, subtypes0[i].value)]]

(***************************************************************************)
(* State of one generation run, CodeGenerator::output, followed by uses of *)
(* the emitted code or by the rest of Installer::install_module; the       *)
(* runtime installers run before it, after it, or after it panicked.       *)
(*   registry, config : the inputs                                         *)
(*   pc       : position in output(): "start", "containers" (the loop of   *)
(*              lines 61-63), "scan" (the visit loop of output_trait_      *)
(*              helpers), "library", "done", "panicked"; then in           *)
(*              install_module: "tested" (output_test returned),           *)
(*              "installed" (install_module returned)                      *)
(*              No call is under way at "start", "done", "installed" and   *)
(*              "panicked"                                                 *)
(*   idx      : index of the next registry entry of the current loop       *)
(*   files    : the output units created so far, in creation order         *)
(*   runtime_files : the paths of the files copied into the directory from *)
(*              the embedded runtime directories (a directory keeps no     *)
(*              order, and a copy reads no unit; with the module name      *)
(*              "example" no copy has the path of a unit)                  *)
(*   subtypes : the helper table of output_trait_helpers                   *)
(*   run      : the last use of the emitted code and its outcome           *)
(***************************************************************************)
VARIABLES registry, config, pc, idx, files, subtypes, run, runtime_files
vars == <<registry, config, pc, idx, files, subtypes, run, runtime_files>>

NoRun == [kind |-> "none"]

File(path, kind, complete, classes, helpers) ==
    [path |-> path, kind |-> kind, complete |-> complete,
     classes |-> classes, helpers |-> helpers]

Init ==
    /\ registry \in Registries
    /\ config \in Configs
    /\ pc = "start"
    /\ idx = 1
    /\ files = <<>>
    /\ subtypes = <<>>
    /\ run = NoRun
    /\ runtime_files = {}

\* lines 45-59: write_package creates pubspec.yaml
WritePackage ==
    /\ pc = "start"
    /\ files' = Append(files, File(<<"pubspec.yaml">>, "package", TRUE, <<>>, <<>>))
    /\ pc' = "containers"
    /\ idx' = 1
    /\ UNCHANGED <<registry, config, subtypes, run, runtime_files>>

\* one iteration of the loop of lines 61-63: write_container_class creates
\* <name>.dart and writes the container into it; a panic leaves the file behind
WriteContainerClass ==
    /\ pc = "containers"
    /\ idx <= Len(registry)
    /\ LET name == registry[idx].name
           format == registry[idx].format
           panics == output_container_panics(format)
       IN /\ files' = Append(files, File(<<name, ".dart">>, "container", ~panics,
                                         output_container(config, name, format), <<>>))
          /\ pc' = IF panics THEN "panicked" ELSE "containers"
          /\ idx' = IF panics THEN idx ELSE idx + 1
    /\ UNCHANGED <<registry, config, subtypes, run, runtime_files>>

\* line 64, write_helper_class up to output_trait_helpers: TraitHelpers.dart is
\* created and the helper table starts empty
BeginHelperClass ==
    /\ pc = "containers"
    /\ idx > Len(registry)
    /\ files' = Append(files, File(<<"TraitHelpers.dart">>, "helpers", FALSE, <<>>, <<>>))
    /\ subtypes' = <<>>
    /\ pc' = "scan"
    /\ idx' = 1
    /\ UNCHANGED <<registry, config, run, runtime_files>>

\* one iteration of the loop of lines 422-431: visit one container
VisitContainer ==
    /\ pc = "scan"
    /\ idx <= Len(registry)
    /\ LET format == registry[idx].format
           err == visit_container_err(format)
       IN \E visited \in {visit_container(format)} :
             /\ subtypes' = IF err THEN subtypes
                            ELSE InsertVisited(subtypes, visited, 1)
             /\ pc' = IF err THEN "panicked" ELSE "scan"
             /\ idx' = IF err THEN idx ELSE idx + 1
    /\ UNCHANGED <<registry, config, files, run, runtime_files>>

\* a visit loop that stops one container short
ScanDone_before_last == idx >= Len(registry)

\* the visit loop of output_trait_helpers is over
ScanDone == idx > Len(registry)

\* lines 432-439: the helper pairs are written, in the table's order
EmitHelpers ==
    /\ pc = "scan"
    /\ ScanDone
    /\ files' = [files EXCEPT ![Len(files)] =
                    File(<<"TraitHelpers.dart">>, "helpers", TRUE, <<>>,
                         output_trait_helpers_emit(subtypes))]
    /\ pc' = "library"
    /\ UNCHANGED <<registry, config, idx, subtypes, run, runtime_files>>

\* line 65: write_library creates <module>.dart
WriteLibrary ==
    /\ pc = "library"
    /\ files' = Append(files, File(<<config.module_name, ".dart">>, "library", TRUE,
                                   <<>>, <<>>))
    /\ pc' = "done"
    /\ UNCHANGED <<registry, config, idx, subtypes, run, runtime_files>>

Generate ==
    \/ WritePackage
    \/ WriteContainerClass
    \/ BeginHelperClass
    \/ VisitContainer
    \/ EmitHelpers
    \/ WriteLibrary

(***************************************************************************)
(* Installer (lines 1078-1130): install_module runs output(), output_test  *)
(* and install_runtime for the test runtime; install_serde_runtime,        *)
(* install_bincode_runtime and install_bcs_runtime copy one embedded       *)
(* directory each.                                                         *)
(***************************************************************************)
\* output() has returned Ok(())
OutputReturned == pc \in {"done", "tested", "installed"}

\* std::fs::File::create: the file is created, or truncated when it exists
RECURSIVE CreateFiles(_, _)
CreateFiles(created, new) ==
    IF new = <<>> THEN created
    ELSE IF \E i \in DOMAIN created : created[i].path = Head(new).path
    THEN CreateFiles([i \in DOMAIN created |->
                         IF created[i].path = Head(new).path THEN Head(new) ELSE created[i]],
                     Tail(new))
    ELSE CreateFiles(Append(created, Head(new)), Tail(new))

\* lines 95-147: output_test creates test/all_test.dart
output_test == File(<<"test/", "all_test.dart">>, "test", TRUE, <<>>, <<>>)

\* include_directory!("runtime/dart/<dir>"): the files embedded at build time.
\* The directories are not part of the sources at hand: a build holds either
\* nothing or the files the written code names (the parts of all_test.dart,
\* lines 121-126; the libraries it imports, lines 107-117)
include_directory(dir) ==
    IF dir = "test"
    THEN {<<>>, <<<<"serde", "_test.dart">>, <<"dijets", "_test.dart">>,
                  <<"bcs", "_test.dart">>, <<"bincode", "_test.dart">>>>}
    ELSE {<<>>, <<<<dir, ".dart">>>>}

\* lines 1089-1102: install_runtime creates one file per entry of the embedded
\* directory, under the path
install_runtime(entries, path) == {path \o entries[i] : i \in DOMAIN entries}

\* line 1115: install_module calls output_test once output() has returned Ok
OutputTest ==
    /\ pc = "done"
    /\ run = NoRun
    /\ files' = CreateFiles(files, <<output_test>>)
    /\ pc' = "tested"
    /\ UNCHANGED <<registry, config, idx, subtypes, run, runtime_files>>

\* line 1116: install_module installs the test runtime under test/src
InstallTestRuntime ==
    /\ pc = "tested"
    /\ \E entries \in include_directory("test") :
          runtime_files' = runtime_files \cup install_runtime(entries, <<"test/", "src/">>)
    /\ pc' = "installed"
    /\ UNCHANGED <<registry, config, idx, files, subtypes, run>>

\* no call of the generator or of install_module is under way: none was made
\* yet, or the last one returned or panicked
BetweenCalls == pc \in {"start", "done", "installed", "panicked"}

\* the directory holds a file copied from an embedded runtime directory
RuntimeInstalled == runtime_files # {}

\* lines 1119-1129: install_serde_runtime, install_bincode_runtime and
\* install_bcs_runtime.  They have no precondition and read nothing the
\* generator wrote: a caller runs them before, between or after its calls of
\* output() and install_module, also after one of these panicked.  A use of the
\* emitted code changes no file, so the directories an installer can leave are
\* all reached from the states without a use
InstallRuntime ==
    /\ BetweenCalls
    /\ run = NoRun
    /\ \E lib \in {"serde", "bincode", "bcs"} :
          \E entries \in include_directory(lib) :
             runtime_files' = runtime_files \cup install_runtime(entries, <<"lib/", lib, "/">>)
    /\ UNCHANGED <<registry, config, pc, idx, files, subtypes, run>>

\* Installer::install_module after output(), and the runtime installers
Install == OutputTest \/ InstallTestRuntime \/ InstallRuntime


(***************************************************************************)
(* In-memory values of the emitted classes.                                *)
(*   integer: a number; bool: a BOOLEAN; unit: "unit";                     *)
(*   Optional: <<>> (empty) or <<v>>; List and TupleN: a sequence;         *)
(*   an object: <<its class name, its fields in constructor order>>.       *)
(***************************************************************************)
\* the sequences s of length Len(sets) with s[i] \in sets[i]
RECURSIVE Product(_)
Product(sets) ==
    IF sets = <<>> THEN {<<>>}
    ELSE {<<h>> \o t : h \in Head(sets), t \in Product(Tail(sets))}

RegistryIndex(reg, name) ==
    IF \E i \in DOMAIN reg : reg[i].name = name
    THEN CHOOSE i \in DOMAIN reg : reg[i].name = name
    ELSE 0

RECURSIVE Values(_, _, _)
RECURSIVE ContainerValues(_, _, _)
Values(reg, format, depth) ==
    CASE format.tag = "Unit" -> {"unit"}
      [] format.tag = "Bool" -> BOOLEAN
      [] format.tag \in PrimTags \ {"Unit", "Bool"} -> 0..MaxVal
      [] format.tag = "Option" ->
            {<<>>} \cup {<<v>> : v \in Values(reg, format.of, depth)}
      [] format.tag = "Seq" -> SeqsUpTo(Values(reg, format.of, depth), MaxSeqLen)
      [] format.tag = "TupleArray" ->
            [1..format.size -> Values(reg, format.content, depth)]
      [] format.tag = "Tuple" ->
            Product([i \in DOMAIN format.items |-> Values(reg, format.items[i], depth)])
      [] format.tag = "TypeName" ->
            IF depth = 0 \/ RegistryIndex(reg, format.name) = 0 THEN {}
            ELSE ContainerValues(reg, format.name, depth - 1)
      [] OTHER -> {}

Object(class, fields) == <<class, fields>>
ClassOf(v) == v[1]
FieldsOf(v) == v[2]

ObjectsOf(reg, class, formats, depth) ==
    {Object(class, fs) :
        fs \in Product([i \in DOMAIN formats |-> Values(reg, formats[i], depth)])}

ContainerValues(reg, name, depth) ==
    LET format == reg[RegistryIndex(reg, name)].format
    IN IF format.tag = "Enum"
       THEN UNION {ObjectsOf(reg, variant_class_name(name, format.variants[i].name),
                             variant_formats(format.variants[i].value), depth) :
                      i \in DOMAIN format.variants}
       ELSE ObjectsOf(reg, <<name>>, container_formats(format), depth)

(***************************************************************************)
(* The runtime the emitted code calls (BinarySerializer / BinaryDeserial-   *)
(* izer): every primitive, length, option tag and variant index is one     *)
(* byte; unit is no byte.                                                  *)
(***************************************************************************)
Wrote(bytes) == [ok |-> TRUE, bytes |-> bytes, err |-> "none"]
WriteFailed(err) == [ok |-> FALSE, bytes |-> <<>>, err |-> err]

serialize_prim(suffix, v) ==
    CASE suffix = "unit" -> Wrote(<<>>)
      [] suffix = "bool" -> Wrote(<<IF v THEN 1 ELSE 0>>)
      [] OTHER -> Wrote(<<v>>)

serialize_len(n) == <<n>>
serialize_option_tag(b) == <<IF b THEN 1 ELSE 0>>
serialize_variant_index(i) == <<i>>

Read(val, off) == [ok |-> TRUE, val |-> val, off |-> off, err |-> "none"]
ReadFailed(err, off) == [ok |-> FALSE, val |-> "none", off |-> off, err |-> err]

\* off is get_buffer_offset(): the number of bytes read so far
deserialize_byte(input, off) ==
    IF off < Len(input) THEN Read(input[off + 1], off + 1)
    ELSE ReadFailed("unexpected end of input", off)

deserialize_bool(input, off) ==
    LET b == deserialize_byte(input, off)
    IN IF ~b.ok THEN b
       ELSE IF b.val \in {0, 1} THEN Read(b.val = 1, b.off)
       ELSE ReadFailed("invalid bool", b.off)

deserialize_prim(suffix, input, off) ==
    CASE suffix = "unit" -> Read("unit", off)
      [] suffix = "bool" -> deserialize_bool(input, off)
      [] OTHER -> deserialize_byte(input, off)

deserialize_len(input, off) == deserialize_byte(input, off)
deserialize_option_tag(input, off) == deserialize_bool(input, off)
deserialize_variant_index(input, off) == deserialize_byte(input, off)

(***************************************************************************)
(* Running the emitted code: serialization.                                *)
(***************************************************************************)
\* the classes and helper pairs of the units written completely: the code
\* the interpreter runs (em, below)
EmittedClasses == Flatten([i \in DOMAIN files |->
                              IF files[i].complete THEN files[i].classes ELSE <<>>])
EmittedHelpers == Flatten([i \in DOMAIN files |->
                              IF files[i].complete THEN files[i].helpers ELSE <<>>])
Emitted == [classes |-> EmittedClasses, helpers |-> EmittedHelpers]

ClassIndex(em, name) ==
    IF \E i \in DOMAIN em.classes : em.classes[i].name = name
    THEN CHOOSE i \in DOMAIN em.classes : em.classes[i].name = name
    ELSE 0

HelperIndex(em, sig) ==
    IF \E i \in DOMAIN em.helpers : em.helpers[i].ser.sig = sig
    THEN CHOOSE i \in DOMAIN em.helpers : em.helpers[i].ser.sig = sig
    ELSE 0

\* the number a decimal literal of the emitted code denotes
DigitValue(token) == CHOOSE n \in 0..9 : Digit(n) = token
RECURSIVE Literal(_)
Literal(tokens) ==
    IF Len(tokens) = 1 THEN DigitValue(tokens[1])
    ELSE 10 * Literal(SubSeq(tokens, 1, Len(tokens) - 1)) + DigitValue(tokens[Len(tokens)])

\* the position "value.item<i>" names
ItemIndex(arg) == Literal(Tail(arg))


\* the results in turn, up to and including the first failure
RECURSIVE ConcatWrites(_)
ConcatWrites(results) ==
    IF results = <<>> THEN Wrote(<<>>)
    ELSE IF ~Head(results).ok THEN Head(results)
    ELSE LET rest == ConcatWrites(Tail(results))
         IN IF rest.ok THEN Wrote(Head(results).bytes \o rest.bytes) ELSE rest

RECURSIVE RunSerializeValue(_, _, _)
RECURSIVE RunSerializeObject(_, _)
RECURSIVE RunSerializeHelper(_, _, _)

\* one statement emitted by quote_serialize_value, on the value v of its argument
RunSerializeValue(em, stmt, v) ==
    CASE stmt.kind = "prim" -> serialize_prim(stmt.fn[1], v)
      [] stmt.kind = "named" -> RunSerializeObject(em, v)
      [] stmt.kind = "helper" ->
            IF HelperIndex(em, stmt.fn) = 0 THEN WriteFailed("no such helper")
            ELSE RunSerializeHelper(em, em.helpers[HelperIndex(em, stmt.fn)].ser, v)

\* v.serialize(serializer) of an object of an emitted class
RunSerializeObject(em, v) ==
    IF ClassIndex(em, ClassOf(v)) = 0 THEN WriteFailed("no such class")
    ELSE LET class == em.classes[ClassIndex(em, ClassOf(v))]
         IN IF class.kind # "class" \/ class.serialize = <<>>
            THEN WriteFailed("no serialize")
            ELSE LET code == class.serialize[1]
                     field(arg) == FieldsOf(v)[IndexOf(class.ctor.assigns, arg)]
                 IN ConcatWrites(
                       [i \in DOMAIN code.body |->
                           IF code.body[i].kind = "variant_index"
                           THEN Wrote(serialize_variant_index(Literal(code.body[i].arg)))
                           ELSE RunSerializeValue(em, code.body[i],
                                                  field(code.body[i].arg))])

\* the body of an emitted serialize_<sig> helper on value v
RunSerializeHelper(em, helper, v) ==
    CASE helper.shape = "Option" ->
            IF v # <<>>
            THEN ConcatWrites(<<Wrote(serialize_option_tag(TRUE)),
                                RunSerializeValue(em, helper.body.inner, v[1])>>)
            ELSE Wrote(serialize_option_tag(FALSE))
      [] helper.shape = "Seq" ->
            ConcatWrites(<<Wrote(serialize_len(Len(v)))>>
                         \o [i \in DOMAIN v |->
                                RunSerializeValue(em, helper.body.inner, v[i])])
      [] helper.shape = "Tuple" ->
            ConcatWrites([i \in DOMAIN helper.body.stmts |->
                            RunSerializeValue(em, helper.body.stmts[i],
                                              v[ItemIndex(helper.body.stmts[i].arg)])])
      [] helper.shape = "TupleArray" ->
            IF Len(v) # helper.body.asserts_len THEN WriteFailed("assertion failed")
            ELSE ConcatWrites([i \in DOMAIN v |->
                                 RunSerializeValue(em, helper.body.inner, v[i])])

(***************************************************************************)
(* Running the emitted code: deserialization.                              *)
(***************************************************************************)
DeHelperIndex(em, sig) ==
    IF \E i \in DOMAIN em.helpers : em.helpers[i].de.sig = sig
    THEN CHOOSE i \in DOMAIN em.helpers : em.helpers[i].de.sig = sig
    ELSE 0

RECURSIVE RunDeserialize(_, _, _, _)
RECURSIVE RunDeserializeClass(_, _, _, _)
RECURSIVE RunLoad(_, _, _, _, _, _)
RECURSIVE RunDeserializeHelper(_, _, _, _)
RECURSIVE RunReadItems(_, _, _, _, _, _)
RECURSIVE RunReadRepeated(_, _, _, _, _, _)

\* one expression emitted by quote_deserialize, at offset off of input
RunDeserialize(em, expr, input, off) ==
    CASE expr.kind = "prim" -> deserialize_prim(expr.fn[1], input, off)
      [] expr.kind = "named" -> RunDeserializeClass(em, expr.qual, input, off)
      [] expr.kind = "helper" ->
            IF DeHelperIndex(em, expr.fn) = 0 THEN ReadFailed("no such helper", off)
            ELSE RunDeserializeHelper(em, em.helpers[DeHelperIndex(em, expr.fn)].de, input, off)

\* <name>.deserialize(deserializer): the static deserialize of a class, or the
\* dispatcher of an enum's abstract class
RunDeserializeClass(em, name, input, off) ==
    IF ClassIndex(em, name) = 0 THEN ReadFailed("no such class", off)
    ELSE LET class == em.classes[ClassIndex(em, name)]
         IN IF class.kind = "enum"
            THEN IF class.dispatcher = <<>> THEN ReadFailed("no deserialize", off)
                 ELSE LET index == deserialize_variant_index(input, off)
                          cases == class.dispatcher[1].cases
                          hit == {i \in DOMAIN cases : cases[i].index = index.val}
                      IN IF ~index.ok THEN index
                         ELSE IF hit = {}
                         THEN ReadFailed("Unknown variant index", index.off)
                         ELSE LET case == cases[CHOOSE i \in hit : \A j \in hit : i <= j]
                              IN IF ClassIndex(em, case.target) = 0
                                 THEN ReadFailed("no such class", index.off)
                                 ELSE RunLoad(em, em.classes[ClassIndex(em, case.target)],
                                              "load", input, index.off, <<>>)
            ELSE RunLoad(em, class, "deserialize", input, off, <<>>)

\* the body of a class's deserialize / load: read the fields into variables,
\* then "return new <class>(<args>)".  read: the values read so far
RunLoad(em, class, op, input, off, read) ==
    IF class.deserialize = <<>> \/ class.deserialize[1].op # op
    THEN ReadFailed("no such operation", off)
    ELSE LET code == class.deserialize[1]
         IN IF Len(read) = Len(code.reads)
            THEN LET var(arg) == read[IndexOf([i \in DOMAIN code.reads |->
                                                  code.reads[i].var], arg)]
                 IN Read(Object(code.returns.class,
                                [i \in DOMAIN code.returns.args |->
                                    var(code.returns.args[i])]), off)
            ELSE LET r == RunDeserialize(em, code.reads[Len(read) + 1].expr, input, off)
                 IN IF ~r.ok THEN r
                    ELSE RunLoad(em, class, op, input, r.off, Append(read, r.val))

\* the expressions exprs[i..] read in turn
RunReadItems(em, exprs, i, input, off, read) ==
    IF i > Len(exprs) THEN Read(read, off)
    ELSE LET r == RunDeserialize(em, exprs[i], input, off)
         IN IF ~r.ok THEN r
            ELSE RunReadItems(em, exprs, i + 1, input, r.off, Append(read, r.val))

\* "for (int i = 0; i < length; i++) obj[i] = <expr>": n more elements
RunReadRepeated(em, expr, n, input, off, read) ==
    IF n = 0 THEN Read(read, off)
    ELSE LET r == RunDeserialize(em, expr, input, off)
         IN IF ~r.ok THEN r
            ELSE RunReadRepeated(em, expr, n - 1, input, r.off, Append(read, r.val))

\* the body of an emitted deserialize_<sig> helper
RunDeserializeHelper(em, helper, input, off) ==
    CASE helper.shape = "Option" ->
            LET tag == deserialize_option_tag(input, off)
            IN IF ~tag.ok THEN tag
               ELSE IF ~tag.val THEN Read(<<>>, tag.off)
               ELSE LET r == RunDeserialize(em, helper.body.inner, input, tag.off)
                    IN IF r.ok THEN Read(<<r.val>>, r.off) ELSE r
      [] helper.shape = "Seq" ->
            LET length == deserialize_len(input, off)
            IN IF ~length.ok THEN length
               ELSE RunReadRepeated(em, helper.body.inner, length.val, input, length.off, <<>>)
      [] helper.shape = "Tuple" ->
            RunReadItems(em, helper.body.items, 1, input, off, <<>>)
      [] helper.shape = "TupleArray" ->
            RunReadRepeated(em, helper.body.inner, helper.body.size, input, off, <<>>)

\* "static <name> <enc>Deserialize(Uint8List input)" as emitted by
\* output_class_deserialize_for_encoding
RunEncodingDeserialize(code, input, value) ==
    IF ~value.ok THEN value
    ELSE IF code.throws_if = "offset < length" /\ value.off < Len(input)
    THEN ReadFailed("Some input bytes were not read", value.off)
    ELSE value

(***************************************************************************)
(* What the registry declares, for stating the properties: every class the *)
(* registry calls for (a struct-like container, or a variant of an enum),  *)
(* with its tag, field names and field Formats in declaration order.       *)
(***************************************************************************)
DeclaredNames(tag, decl) ==
    CASE tag \in {"UnitStruct", "Unit"} -> <<>>
      [] tag \in {"NewTypeStruct", "NewType"} -> <<<<"value">>>>
      [] tag \in {"TupleStruct", "Tuple"} ->
            [i \in DOMAIN decl.items |-> <<"field">> \o Decimal(i - 1)]
      [] tag = "Struct" -> [i \in DOMAIN decl.fields |-> <<decl.fields[i].name>>]

DeclaredFormats(tag, decl) ==
    CASE tag \in {"UnitStruct", "Unit"} -> <<>>
      [] tag \in {"NewTypeStruct", "NewType"} -> <<decl.of>>
      [] tag \in {"TupleStruct", "Tuple"} -> decl.items
      [] tag = "Struct" -> [i \in DOMAIN decl.fields |-> decl.fields[i].value]

DeclaredClassesOf(entry) ==
    IF entry.format.tag = "Enum"
    THEN [i \in DOMAIN entry.format.variants |->
             LET variant == entry.format.variants[i]
             IN [container |-> entry.name,
                 class |-> <<entry.name, variant.name, "Item">>,
                 tag |-> <<variant.index>>,
                 names |-> DeclaredNames(variant.value.tag, variant.value),
                 formats |-> DeclaredFormats(variant.value.tag, variant.value)]]
    ELSE <<[container |-> entry.name,
            class |-> <<entry.name>>,
            tag |-> <<>>,
            names |-> DeclaredNames(entry.format.tag, entry.format),
            formats |-> DeclaredFormats(entry.format.tag, entry.format)]>>

DeclaredClasses == Flatten([i \in DOMAIN registry |-> DeclaredClassesOf(registry[i])])

CompositeTags == {"Option", "Seq", "Map", "Tuple", "TupleArray"}

\* a Format and every Format nested in it, outermost first
RECURSIVE NestedFormats(_)
NestedFormats(format) ==
    <<format>> \o
    (CASE format.tag \in {"Option", "Seq"} -> NestedFormats(format.of)
       [] format.tag = "TupleArray" -> NestedFormats(format.content)
       [] format.tag = "Map" -> NestedFormats(format.key) \o NestedFormats(format.value)
       [] format.tag = "Tuple" ->
             Flatten([i \in DOMAIN format.items |-> NestedFormats(format.items[i])])
       [] OTHER -> <<>>)

\* every occurrence of a composite shape in the registry
ReachableShapes ==
    SelectSeq(Flatten([c \in DOMAIN DeclaredClasses |->
                 Flatten([i \in DOMAIN DeclaredClasses[c].formats |->
                             NestedFormats(DeclaredClasses[c].formats[i])])]),
              LAMBDA f : f.tag \in CompositeTags)

(***************************************************************************)
(* Building the emitted library.  <module>.dart names its parts and its    *)
(* imports (write_library, lines 163-191); pubspec.yaml (write_package,    *)
(* lines 78-79) admits the Dart 2 SDKs from 2.10 on, so the library is     *)
(* checked by the Dart 2 static rules.  The units are one library: an      *)
(* error in one part refuses the whole of it.                              *)
(***************************************************************************)
\* lines 169 and 171-177: "import '../serde/serde.dart';" and one
\* "import '../<enc>/<enc>.dart';" per configured encoding, as paths of the
\* install directory (the library is written to lib/<module>/)
LibraryImports(conf) ==
    {<<"lib/", "serde", "/", "serde", ".dart">>}
    \cup {<<"lib/", EncodingName(conf.encodings[e]), "/",
            EncodingName(conf.encodings[e]), ".dart">> : e \in DOMAIN conf.encodings}

\* every file the library imports from the install directory is there
ImportsResolve == LibraryImports(config) \subseteq runtime_files

\* the tokens of an emitted type that dart:core, dart:typed_data and the imported
\* packages and runtime libraries give a meaning to
LibraryTypeTokens ==
    {"Unit", "bool", "int", "Int128", "double", "String", "Bytes",
     "Optional<", "List<", "Map<", "Tuple", "<", ", ", ">"} \cup {Digit(n) : n \in 0..9}

\* the classes the parts of the library declare
DeclaredTypes(em) == {em.classes[c].name : c \in DOMAIN em.classes}

\* the type names of an emitted type that nothing declares
UndeclaredTypes(em, type) ==
    {type[t] : t \in {u \in DOMAIN type :
                         /\ type[u] \notin LibraryTypeTokens
                         /\ <<type[u]>> \notin DeclaredTypes(em)}}

\* the element types "new List<T>.filled(N, 0)" is well typed for: the fill
\* value is an int literal
NumericTypes == {<<"int">>, <<"double">>}

\* one error: the unit and the member it is in, the rule broken, and the
\* emitted text that breaks it
DartError(unit, at, error, text) ==
    [unit |-> unit, at |-> at, error |-> error, text |-> text]

WhenError(cond, error) == IF cond THEN {error} ELSE {}

\* the static errors of one emitted helper pair
HelperErrors(em, pair) ==
    LET unit == <<"TraitHelpers", ".dart">>
        ser == <<"serialize_">> \o pair.ser.sig
        de == <<"deserialize_">> \o pair.de.sig
    IN WhenError(pair.ser.shape = "Map",
                 DartError(unit, ser, "not a Dart statement", pair.ser.body.iterates))
       \cup WhenError(pair.de.shape = "Map",
                      DartError(unit, de, "HashMap is not declared", pair.de.body.creates))
       \cup WhenError(pair.de.shape = "Map",
                      DartError(unit, de, "Map has no method put", pair.de.body.stores))
       \cup WhenError(/\ pair.de.shape = "TupleArray"
                      /\ pair.de.body.item_type \notin NumericTypes,
                      DartError(unit, de, "the int 0 is no value of the element type",
                                pair.de.body.creates))
       \cup {DartError(unit, ser, "undeclared type", name) :
                name \in UndeclaredTypes(em, pair.ser.type)}

\* the static errors of one emitted class
ClassErrors(em, class) ==
    LET unit == <<class.name[1], ".dart">>
    IN IF class.kind # "class" THEN {}
       ELSE {DartError(unit, class.name, "undeclared type", name) :
                name \in UNION {UndeclaredTypes(em, class.fields[f].type) :
                                   f \in DOMAIN class.fields}}
            \cup UNION {WhenError(class.from_json.inits[i].from = "field",
                                  DartError(unit, class.name \o <<".", class.from_json.op>>,
                                            "an initializer cannot read the instance",
                                            class.from_json.inits[i].var)) :
                           i \in DOMAIN class.from_json.inits}

\* what the Dart front end reports on the emitted library
DartErrors(em) ==
    UNION {HelperErrors(em, em.helpers[h]) : h \in DOMAIN em.helpers}
    \cup UNION {ClassErrors(em, em.classes[c]) : c \in DOMAIN em.classes}

(***************************************************************************)
(* Uses of the emitted code.  The code can be used once output() has       *)
(* returned Ok, no call is under way and the files the library imports are *)
(* in the install directory; a library the front end refuses runs nothing. *)
(* A behaviour follows one use: no use changes a file.                     *)
(***************************************************************************)
Wires == SeqsUpTo(0..MaxByte, MaxWireLen)

CanUse == BetweenCalls /\ OutputReturned /\ ImportsResolve /\ run = NoRun

\* the use of the library was refused at build time
Rejected(use, container, member, errors) ==
    [kind |-> "rejected", use |-> use, container |-> container, member |-> member,
     errors |-> errors]

\* v.serialize(serializer) on a value of a container of the registry, then
\* <Container>.deserialize(deserializer) on the bytes written
RoundTrip ==
    /\ CanUse
    /\ config.serialization
    /\ \E em \in {Emitted} :
          \E errors \in {DartErrors(em)} :
             \E i \in DOMAIN registry :
                IF errors # {}
                THEN run' = Rejected("roundtrip", registry[i].name, <<"serialize">>, errors)
                ELSE \E v \in ContainerValues(registry, registry[i].name, MaxDepth) :
                        LET written == RunSerializeObject(em, v)
                        IN run' = [kind |-> "roundtrip",
                                   container |-> registry[i].name,
                                   value |-> v,
                                   written |-> written,
                                   read |-> IF written.ok
                                            THEN RunDeserializeClass(
                                                    em, <<registry[i].name>>,
                                                    written.bytes, 0)
                                            ELSE ReadFailed("nothing written", 0)]
    /\ UNCHANGED <<registry, config, pc, idx, files, subtypes, runtime_files>>

\* <Container>.<enc>Deserialize(input) on an arbitrary input
Decode ==
    /\ CanUse
    /\ \E em \in {Emitted} :
          \E errors \in {DartErrors(em)} :
             \E i \in DOMAIN registry :
                LET class == em.classes[ClassIndex(em, <<registry[i].name>>)]
                IN \E e \in DOMAIN class.deser_enc :
                      IF errors # {}
                      THEN run' = Rejected("decode", registry[i].name,
                                           class.deser_enc[e].op, errors)
                      ELSE \E input \in Wires :
                              LET value == RunDeserializeClass(em, class.deser_enc[e].class,
                                                               input, 0)
                              IN run' = [kind |-> "decode",
                                         container |-> registry[i].name,
                                         op |-> class.deser_enc[e].op,
                                         input |-> input,
                                         value |-> value,
                                         result |-> RunEncodingDeserialize(
                                                       class.deser_enc[e], input, value)]
    /\ UNCHANGED <<registry, config, pc, idx, files, subtypes, runtime_files>>

\* the fixed-size array shapes of the registry
ArrayShapes == {f \in Range(ReachableShapes) : f.tag = "TupleArray"}

\* TraitHelpers.serialize_<sig>(value, serializer) on a list of any length, for
\* the helper of a fixed-size array, then deserialize_<sig> on the bytes written.
\* checked: whether the Dart build runs assert statements
CallArrayHelper ==
    /\ CanUse
    /\ \E em \in {Emitted} :
          \E errors \in {DartErrors(em)} :
             \E shape \in ArrayShapes :
                LET helper == em.helpers[HelperIndex(em, mangle_type(shape))]
                IN IF errors # {}
                   THEN run' = Rejected("array", "TraitHelpers",
                                        <<"serialize_">> \o helper.ser.sig, errors)
                   ELSE \E checked \in BOOLEAN :
                        \E v \in SeqsUpTo(Values(registry, shape.content, MaxDepth),
                                          shape.size + 1) :
                           LET ser == IF checked THEN helper.ser
                                      ELSE [helper.ser EXCEPT !.body.asserts_len = Len(v)]
                               written == RunSerializeHelper(em, ser, v)
                           IN run' = [kind |-> "array",
                                      sig |-> helper.ser.sig,
                                      size |-> shape.size,
                                      checked |-> checked,
                                      value |-> v,
                                      written |-> written,
                                      read |-> IF written.ok
                                               THEN RunDeserializeHelper(em, helper.de,
                                                                         written.bytes, 0)
                                               ELSE ReadFailed("nothing written", 0)]
    /\ UNCHANGED <<registry, config, pc, idx, files, subtypes, runtime_files>>

Next == Generate \/ Install \/ RoundTrip \/ Decode \/ CallArrayHelper

Spec == Init /\ [][Next]_vars

\* one call of output() alone.  It is one sequential call: it keeps running
\* until it returns or panics
GenerationSpec == Init /\ [][Generate]_vars /\ WF_vars(Generate)

\* the emitted class of a declared class (generation has completed)
EmittedClassOf(declared) ==
    EmittedClasses[CHOOSE i \in DOMAIN EmittedClasses :
                      EmittedClasses[i].name = declared.class]

HelpersOf(sig) == {i \in DOMAIN EmittedHelpers : EmittedHelpers[i].ser.sig = sig}

\* the same, over helper pairs and classes already collected
HelpersIn(helpers, sig) == {i \in DOMAIN helpers : helpers[i].ser.sig = sig}

ClassIn(classes, name) ==
    classes[CHOOSE i \in DOMAIN classes : classes[i].name = name]

HelperUnitWritten == pc = "library" \/ OutputReturned

\* the units as the generator left them, before any use of the emitted code
\* and before any installer step (a use reads the units and an installer step
\* adds files beside them; neither changes a unit)
AsWritten == run = NoRun /\ pc \notin {"tested", "installed"} /\ ~RuntimeInstalled

(***************************************************************************)
(* C1: the helper unit holds exactly one serialize_<sig>/deserialize_<sig>  *)
(* pair per distinct composite shape of the registry, whatever the number  *)
(* of fields and containers holding the shape, and no other pair; and each *)
(* occurrence of a composite shape as a field of a container or variant    *)
(* calls the one pair of its shape, in serialize and in deserialize.       *)
(***************************************************************************)
C1_HelperDedup ==
    HelperUnitWritten /\ AsWritten =>
        LET shapes == ReachableShapes
            sigs == [k \in DOMAIN shapes |-> mangle_type(shapes[k])]
            helpers == EmittedHelpers
            classes == EmittedClasses
            declaredClasses == DeclaredClasses
        IN /\ \A k \in DOMAIN shapes :
                 /\ Cardinality(HelpersIn(helpers, sigs[k])) = 1
                 /\ \A i \in HelpersIn(helpers, sigs[k]) :
                       /\ helpers[i].de.sig = sigs[k]
                       /\ helpers[i].ser.shape = shapes[k].tag
                       /\ helpers[i].de.shape = shapes[k].tag
                       /\ helpers[i].ser.type = quote_type(shapes[k])
                       /\ helpers[i].de.type = quote_type(shapes[k])
           /\ \A i \in DOMAIN helpers :
                 \E k \in DOMAIN shapes : helpers[i].ser.sig = sigs[k]
           /\ \A c \in DOMAIN declaredClasses :
                 LET declared == declaredClasses[c]
                     class == ClassIn(classes, declared.class)
                 IN \A f \in DOMAIN declared.formats :
                       declared.formats[f].tag \in CompositeTags /\ class.serialize # <<>> =>
                          LET write == class.serialize[1].stmts[f]
                              read == class.deserialize[1].reads[f].expr
                          IN /\ write.kind = "helper" /\ read.kind = "helper"
                             /\ write.fn = read.fn
                             /\ Cardinality(HelpersIn(helpers, write.fn)) = 1
                             /\ \A i \in HelpersIn(helpers, write.fn) :
                                   /\ helpers[i].ser.type = class.fields[f].type
                                   /\ helpers[i].de.type = class.fields[f].type
                                   /\ helpers[i].de.sig = read.fn

\* two containers (Bag and Pair) both hold an optional<u8> field, and the helper
\* unit written for them holds its pair once, called from both
C1_Witness ==
    /\ pc = "done"
    /\ config.serialization
    /\ \E a, b \in DOMAIN DeclaredClasses :
          /\ DeclaredClasses[a].container # DeclaredClasses[b].container
          /\ \E f \in DOMAIN DeclaredClasses[a].formats, g \in DOMAIN DeclaredClasses[b].formats :
                /\ DeclaredClasses[a].formats[f] = FOption(FU8)
                /\ DeclaredClasses[b].formats[g] = FOption(FU8)
                /\ EmittedClassOf(DeclaredClasses[a]).serialize[1].stmts[f].fn
                      = <<"option", "u8">>
                /\ EmittedClassOf(DeclaredClasses[b]).serialize[1].stmts[g].fn
                      = <<"option", "u8">>
    /\ Cardinality(HelpersOf(<<"option", "u8">>)) = 1

ContainerEmissionBegun == \E i \in DOMAIN files : files[i].kind = "container"

HelperTableBuilt ==
    /\ \/ pc = "library" \/ OutputReturned
       \/ pc = "scan" /\ idx > Len(registry)
    /\ LET shapes == ReachableShapes
       IN \A k \in DOMAIN shapes :
             \E j \in DOMAIN subtypes : subtypes[j].key = mangle_type(shapes[k])

AllContainersEmitted ==
    \A r \in DOMAIN registry :
       \E i \in DOMAIN files :
          /\ files[i].kind = "container"
          /\ files[i].path = <<registry[r].name, ".dart">>
          /\ files[i].complete

HelperEmissionBegun ==
    \E i \in DOMAIN files : files[i].kind = "helpers" /\ files[i].complete

(***************************************************************************)
(* C2 as claimed: once the emission of a container has begun, the helper   *)
(* table is completely built (the Formats of all containers visited).      *)
(***************************************************************************)
C2_TableBuiltBeforeContainers == ContainerEmissionBegun => HelperTableBuilt

(***************************************************************************)
(* C2 as amended: output() emits every container first and builds the      *)
(* helper table afterwards, inside write_helper_class; the table is        *)
(* completely built (the Formats of all containers visited) before the     *)
(* emission of the first helper pair begins.                               *)
(***************************************************************************)
C2_TableBuiltBeforeHelpers ==
    /\ pc = "scan" => AllContainersEmitted
    /\ HelperEmissionBegun /\ AsWritten => AllContainersEmitted /\ HelperTableBuilt

\* the helper pairs of a registry of two containers have been written from a
\* table holding several shapes
C2_Witness ==
    /\ HelperEmissionBegun
    /\ Len(registry) >= 2
    /\ Len(subtypes) >= 2
    /\ Len(EmittedHelpers) = Len(subtypes)

(***************************************************************************)
(* C3 as claimed: when generation aborts on a Variable placeholder, no     *)
(* output unit has been written.                                           *)
(***************************************************************************)
C3_AbortsBeforeAnyOutput == pc = "panicked" => files = <<>>

(***************************************************************************)
(* C4 as claimed: for every container of the registry, the emitted         *)
(* serialize and deserialize can be run, and deserialize, run on the bytes *)
(* serialize wrote for a value, reads all of them and returns the value.   *)
(***************************************************************************)
C4_RoundTrip ==
    /\ run.kind = "rejected" => run.use # "roundtrip"
    /\ run.kind = "roundtrip" =>
          /\ run.written.ok
          /\ run.read.ok
          /\ run.read.off = Len(run.written.bytes)
          /\ run.read.val = run.value

\* the part of C4 that holds: a round trip that runs returns the value
C4_BuiltRoundTrip ==
    run.kind = "roundtrip" =>
        /\ run.written.ok
        /\ run.read.ok
        /\ run.read.off = Len(run.written.bytes)
        /\ run.read.val = run.value

(***************************************************************************)
(* C5: in every struct-like class and every variant class, the fields      *)
(* serialize writes and the fields deserialize/load reads are the same     *)
(* sequence of names and Formats, the declaration order of the registry    *)
(* (tuple fields as field0, field1, ...), and the constructor receives     *)
(* them in that order.                                                     *)
(***************************************************************************)
C5_FieldOrderSymmetry ==
    pc = "done" /\ AsWritten /\ config.serialization =>
        LET classes == EmittedClasses
            declaredClasses == DeclaredClasses
        IN \A c \in DOMAIN declaredClasses :
           LET declared == declaredClasses[c]
               class == ClassIn(classes, declared.class)
               writes == class.serialize[1].stmts
               reads == class.deserialize[1].reads
           IN /\ Len(writes) = Len(declared.names)
              /\ Len(reads) = Len(declared.names)
              /\ \A i \in DOMAIN declared.names :
                    /\ class.fields[i].name = declared.names[i]
                    /\ writes[i] = quote_serialize_value(declared.names[i],
                                                         declared.formats[i])
                    /\ reads[i].var = declared.names[i]
                    /\ reads[i].expr = quote_deserialize(declared.formats[i])
                    /\ writes[i].kind = reads[i].expr.kind
                    /\ writes[i].kind # "named" => writes[i].fn = reads[i].expr.fn
              /\ class.deserialize[1].returns.args = declared.names
              /\ class.ctor.assigns = declared.names

\* a tuple struct and a struct variant, each of two fields of different Formats,
\* have been emitted with serialization
C5_Witness ==
    /\ pc = "done"
    /\ config.serialization
    /\ \E a, b \in DOMAIN DeclaredClasses :
          /\ DeclaredClasses[a].names = <<<<"field", "0">>, <<"field", "1">>>>
          /\ DeclaredClasses[b].tag = <<3>>
          /\ DeclaredClasses[b].names = <<<<"len">>, <<"on">>>>
          /\ EmittedClassOf(DeclaredClasses[b]).deserialize[1].op = "load"
          /\ EmittedClassOf(DeclaredClasses[b]).deserialize[1].reads[2].var = <<"on">>


\* the entry of a container in the registry
DeclaredContainer(name) == registry[RegistryIndex(registry, name)]

VariantTags(format) == {format.variants[i].index : i \in DOMAIN format.variants}

(***************************************************************************)
(* C6: the deserialize of an enum's abstract class reads exactly one       *)
(* variant index and holds exactly one case per variant tag of the         *)
(* registry, which hands over to the load of that variant's class; an      *)
(* index that is no variant's tag makes deserialization fail with          *)
(* "Unknown variant index", whatever bytes follow.                         *)
(***************************************************************************)
C6_EnumDispatch ==
    /\ pc = "done" /\ AsWritten /\ config.serialization =>
          \A r \in DOMAIN registry :
             registry[r].format.tag = "Enum" =>
                LET variants == registry[r].format.variants
                    class == ClassIn(EmittedClasses, <<registry[r].name>>)
                    dispatcher == class.dispatcher[1]
                IN /\ dispatcher.reads = <<"variant_index">>
                   /\ Len(dispatcher.cases) = Len(variants)
                   /\ \A i \in DOMAIN variants :
                         /\ dispatcher.cases[i].index = variants[i].index
                         /\ dispatcher.cases[i].target =
                               <<registry[r].name, variants[i].name, "Item">>
                         /\ dispatcher.cases[i].op = "load"
                   /\ dispatcher.default = "throw Unknown variant index"
    /\ run.kind = "decode" /\ DeclaredContainer(run.container).format.tag = "Enum"
          /\ run.input # <<>> =>
          LET format == DeclaredContainer(run.container).format
              tag == run.input[1]
          IN IF tag \in VariantTags(format)
             THEN run.value.ok =>
                     \E i \in DOMAIN format.variants :
                        /\ format.variants[i].index = tag
                        /\ ClassOf(run.value.val) =
                              <<run.container, format.variants[i].name, "Item">>
             ELSE /\ ~run.value.ok
                  /\ run.value.err = "Unknown variant index"
                  /\ run.value.off = 1
                  /\ ~run.result.ok

\* an enum with tags 0, 1, 3, 4 was asked to decode an input starting with 2
C6_Witness ==
    /\ run.kind = "decode"
    /\ DeclaredContainer(run.container).format.tag = "Enum"
    /\ VariantTags(DeclaredContainer(run.container).format) = {0, 1, 3, 4}
    /\ Len(run.input) >= 2
    /\ run.input[1] = 2
    /\ ~run.result.ok
    /\ run.result.err = "Unknown variant index"

(***************************************************************************)
(* C7: every top-level class has one <enc>Deserialize per configured       *)
(* encoding; it deserializes a value and fails with "Some input bytes were *)
(* not read" when the offset reached is short of the input's length, and   *)
(* returns the value when the whole input was read.                        *)
(***************************************************************************)
C7_TrailingBytesRejected ==
    /\ pc = "done" /\ AsWritten /\ config.serialization =>
          \A r \in DOMAIN registry :
             LET class == ClassIn(EmittedClasses, <<registry[r].name>>)
             IN /\ Len(class.deser_enc) = Len(config.encodings)
                /\ \A e \in DOMAIN config.encodings :
                      /\ class.deser_enc[e].op =
                            <<EncodingName(config.encodings[e]), "Deserialize">>
                      /\ class.deser_enc[e].class = <<registry[r].name>>
    /\ run.kind = "decode" /\ run.value.ok =>
          IF run.value.off < Len(run.input)
          THEN /\ ~run.result.ok
               /\ run.result.err = "Some input bytes were not read"
          ELSE /\ run.result.ok
               /\ run.result.val = run.value.val
               /\ run.result.off = Len(run.input)

\* a value was decoded from a proper prefix of the input, and the call failed
C7_Witness ==
    /\ run.kind = "decode"
    /\ run.value.ok
    /\ run.value.off > 0
    /\ run.value.off < Len(run.input)
    /\ ~run.result.ok
    /\ run.result.err = "Some input bytes were not read"

\* the emitted deserialize helpers of Map shapes, by the name of the function
MapDeserializeHelpers ==
    {<<"deserialize_">> \o EmittedHelpers[h].de.sig :
        h \in {k \in DOMAIN EmittedHelpers : EmittedHelpers[k].de.shape = "Map"}}

(***************************************************************************)
(* C8 as claimed: the emitted Map deserialize helper takes the buffer      *)
(* offset right before and right after it reads each key and, for every    *)
(* entry after the first, has the runtime check the key's slice against    *)
(* the slice of the key before it; the helper decodes map wires, so that   *)
(* one whose keys are not strictly increasing is a decode failure: no      *)
(* decode is refused on account of the helper itself.                      *)
(***************************************************************************)
C8_MapKeysIncreasing ==
    /\ HelperUnitWritten /\ AsWritten =>
          \A h \in DOMAIN EmittedHelpers :
             EmittedHelpers[h].de.shape = "Map" =>
                LET body == EmittedHelpers[h].de.body
                IN /\ body.key_range =
                         <<"int key_start = deserializer.get_buffer_offset();",
                           "{0} key = {2};",
                           "int key_end = deserializer.get_buffer_offset();">>
                   /\ body.checks.guard = "if (i > 0)"
                   /\ body.checks.call = "deserializer.check_that_key_slices_are_increasing"
                   /\ body.checks.args = <<"new Slice(previous_key_start, previous_key_end)",
                                           "new Slice(key_start, key_end)">>
    /\ run.kind = "rejected" /\ run.use = "decode" =>
          \A e \in run.errors : e.at \notin MapDeserializeHelpers

\* a class that holds none of the serialization code
NoCodec(class) ==
    \/ class.kind = "partial"
    \/ /\ class.ser_enc = <<>>
       /\ class.deser_enc = <<>>
       /\ IF class.kind = "enum"
          THEN class.dispatcher = <<>> /\ class.json_dispatcher = <<>>
          ELSE class.serialize = <<>> /\ class.deserialize = <<>>

(***************************************************************************)
(* C9 as claimed: with serialization disabled, the output holds no         *)
(* serialize/deserialize methods, no per-encoding entry points and no      *)
(* trait-helper functions.                                                 *)
(***************************************************************************)
C9_SchemaOnlyNoCodecs ==
    ~config.serialization =>
        \A f \in DOMAIN files :
           /\ files[f].helpers = <<>>
           /\ \A c \in DOMAIN files[f].classes : NoCodec(files[f].classes[c])

\* the schema-only part that holds: the classes carry no codec
C9_ClassesOnly ==
    ~config.serialization =>
        \A f \in DOMAIN files :
           \A c \in DOMAIN files[f].classes : NoCodec(files[f].classes[c])

\* the name the user's external definitions give to a type name
ExternalNamespaces(name) ==
    {e.namespace : e \in {d \in config.external_definitions : d.name = name}}

(***************************************************************************)
(* C10 as claimed: a field whose type name is listed under a namespace of  *)
(* the external definitions is emitted as "<namespace>.<name>", in the     *)
(* field's type and in its deserialize expression; any other name is       *)
(* emitted bare.                                                           *)
(***************************************************************************)
C10_ExternalNamesQualified ==
    pc = "done" =>
        \A c \in DOMAIN DeclaredClasses :
           LET declared == DeclaredClasses[c]
               class == EmittedClassOf(declared)
           IN \A i \in DOMAIN declared.formats :
                 declared.formats[i].tag = "TypeName" =>
                    LET name == declared.formats[i].name
                        expected ==
                           IF ExternalNamespaces(name) = {}
                           THEN {<<name>>}
                           ELSE {<<ns, ".", name>> : ns \in ExternalNamespaces(name)}
                    IN /\ class.fields[i].type \in expected
                       /\ class.deserialize # <<>> =>
                             class.deserialize[1].reads[i].expr.qual \in expected


\* the statements of a serialize body that write a variant index
TagWrites(body) == {i \in DOMAIN body : body[i].kind = "variant_index"}

(***************************************************************************)
(* C11: the serialize of a variant's class writes the variant's tag as its *)
(* first statement and nowhere else, then one statement per field in       *)
(* declared order; the serialize of a struct-like container that is no     *)
(* variant writes no tag.  On the wire, the first byte of a variant is its *)
(* tag, and a field of one byte declared first comes right after it (first *)
(* of all in a container that is no variant).                              *)
(***************************************************************************)
C11_TagFirstThenFields ==
    /\ pc = "done" /\ AsWritten /\ config.serialization =>
          LET classes == EmittedClasses
              declaredClasses == DeclaredClasses
          IN \A c \in DOMAIN declaredClasses :
                LET declared == declaredClasses[c]
                    body == ClassIn(classes, declared.class).serialize[1].body
                    writes == [i \in DOMAIN declared.names |->
                                  quote_serialize_value(declared.names[i],
                                                        declared.formats[i])]
                IN IF declared.tag = <<>>
                   THEN TagWrites(body) = {} /\ body = writes
                   ELSE /\ TagWrites(body) = {1}
                        /\ body[1].fn = <<"variant_index">>
                        /\ body[1].arg = Decimal(declared.tag[1])
                        /\ Tail(body) = writes
    /\ run.kind = "roundtrip" /\ run.written.ok =>
          LET declared == CHOOSE d \in Range(DeclaredClasses) : d.class = ClassOf(run.value)
              bytes == run.written.bytes
              after == IF declared.tag = <<>> THEN 1 ELSE 2
          IN /\ declared.tag # <<>> => Len(bytes) >= 1 /\ bytes[1] = declared.tag[1]
             /\ declared.formats # <<>> /\ declared.formats[1] = FU8 =>
                   Len(bytes) >= after /\ bytes[after] = FieldsOf(run.value)[1]

\* the struct variant of tag 3 was written as its tag, then its two fields
C11_Witness ==
    /\ run.kind = "roundtrip"
    /\ ClassOf(run.value) = <<"Shape", "Seg", "Item">>
    /\ FieldsOf(run.value) = <<1, TRUE>>
    /\ run.written.ok
    /\ run.written.bytes = <<3, 1, 1>>


\* the emitted helpers of fixed-size arrays, by the names of their functions
ArrayHelpers ==
    UNION {{<<"serialize_">> \o EmittedHelpers[h].ser.sig,
            <<"deserialize_">> \o EmittedHelpers[h].de.sig} :
              h \in {k \in DOMAIN EmittedHelpers : EmittedHelpers[k].ser.shape = "TupleArray"}}

(***************************************************************************)
(* C12 as claimed: for every fixed-size array of declared size N, whatever *)
(* its elements, the serialize helper writes no length, asserts that the   *)
(* value holds N elements before it writes any, and writes the elements in *)
(* order; the deserialize helper reads N elements and no length: the       *)
(* helpers can be called, and no call is refused on account of them.       *)
(* (Elements of one byte: the wire of the array is its N elements.)        *)
(***************************************************************************)
C12_FixedArray ==
    /\ HelperUnitWritten /\ AsWritten =>
          LET helpers == EmittedHelpers
          IN \A shape \in ArrayShapes :
                \A h \in HelpersIn(helpers, mangle_type(shape)) :
                   /\ helpers[h].ser.body.writes_len = FALSE
                   /\ helpers[h].ser.body.asserts_len = shape.size
                   /\ helpers[h].de.body.reads_len = FALSE
                   /\ helpers[h].de.body.size = shape.size
    /\ run.kind = "array" =>
          /\ Len(run.value) = run.size =>
                /\ run.written.ok
                /\ run.written.bytes = run.value
                /\ run.read.ok
                /\ run.read.off = run.size
                /\ run.read.val = run.value
          /\ Len(run.value) # run.size /\ run.checked =>
                /\ ~run.written.ok
                /\ run.written.err = "assertion failed"
                /\ run.written.bytes = <<>>
          /\ run.read.ok => run.read.off = run.size /\ Len(run.read.val) = run.size
    /\ run.kind = "rejected" /\ run.use = "array" =>
          \A e \in run.errors : e.at \notin ArrayHelpers
\* the part of C12 that holds: the helpers of an array of integers write and
\* read the N elements, and a list of another length is refused
C12_IntegerArray ==
    run.kind = "array" =>
        /\ Len(run.value) = run.size =>
              /\ run.written.ok
              /\ run.written.bytes = run.value
              /\ run.read.ok
              /\ run.read.val = run.value
        /\ Len(run.value) # run.size /\ run.checked => ~run.written.ok

\* the struct-like containers emitted as a redefinition of their one field
IsNewTypeContainer(declared) ==
    declared.tag = <<>> /\ DeclaredContainer(declared.container).format.tag = "NewTypeStruct"

(***************************************************************************)
(* C13 as claimed: the emitted toJson of a struct-like container or        *)
(* variant holds one key per declared field, and the emitted fromJson /    *)
(* loadJson initializes every field from the key of the field's name,      *)
(* whatever the field's Format; a newtype container encodes to, and        *)
(* decodes from, the bare inner value.                                     *)
(***************************************************************************)
C13_JsonMirrorsFields ==
    pc = "done" /\ AsWritten =>
        LET classes == EmittedClasses
            declaredClasses == DeclaredClasses
        IN \A c \in DOMAIN declaredClasses :
              LET declared == declaredClasses[c]
                  class == ClassIn(classes, declared.class)
                  encode == class.to_json
                  decode == class.from_json
              IN IF IsNewTypeContainer(declared)
                 THEN /\ encode.kind = "bare"
                      /\ encode.entries[1].expr = declared.names[1]
                      /\ Len(decode.inits) = 1
                      /\ decode.inits[1].var = declared.names[1]
                      /\ decode.inits[1].from = "json"
                 ELSE /\ encode.kind = "object"
                      /\ Len(decode.inits) = Len(declared.names)
                      /\ \A i \in DOMAIN declared.names :
                            /\ encode.entries[i].key = declared.names[i]
                            /\ Cardinality({e \in DOMAIN encode.entries :
                                  encode.entries[e].key = declared.names[i]}) = 1
                            /\ decode.inits[i].var = declared.names[i]
                            /\ decode.inits[i].from = "key"
                            /\ decode.inits[i].key = declared.names[i]

\* the same with the fields of a Tuple Format left out: what the code does
C13_JsonMirrorsFieldsButTuples ==
    pc = "done" /\ AsWritten =>
        LET classes == EmittedClasses
            declaredClasses == DeclaredClasses
        IN \A c \in DOMAIN declaredClasses :
              LET declared == declaredClasses[c]
                  class == ClassIn(classes, declared.class)
                  encode == class.to_json
                  decode == class.from_json
              IN IF IsNewTypeContainer(declared)
                 THEN /\ encode.kind = "bare"
                      /\ decode.inits[1].from = "json"
                 ELSE /\ encode.kind = "object"
                      /\ \A i \in DOMAIN declared.names :
                            /\ encode.entries[i].key = declared.names[i]
                            /\ decode.inits[i].var = declared.names[i]
                            /\ decode.inits[i].from =
                                  IF declared.formats[i].tag = "Tuple" THEN "field"
                                  ELSE "key"


\* the helper table after the containers order[i..] of the registry are visited
\* in that order, starting from table
RECURSIVE TableFrom(_, _, _)
TableFrom(table, order, i) ==
    IF i > Len(order) THEN table
    ELSE TableFrom(InsertVisited(table, visit_container(registry[order[i]].format), 1),
                   order, i + 1)

\* the orders in which n containers can be visited
Orders(n) == {p \in [1..n -> 1..n] : \A i, j \in 1..n : p[i] = p[j] => i = j}

TableKeys(table) == {table[i].key : i \in DOMAIN table}

(***************************************************************************)
(* C14: the helper pairs are emitted in the order of the helper table,     *)
(* which is the ascending order of the signatures; the table holds the     *)
(* signatures of the composite shapes of the registry and nothing else;    *)
(* inserting a shape again leaves the table as it is; and visiting the     *)
(* containers in any order builds the same table.                          *)
(***************************************************************************)
C14_HelperOrderCanonical ==
    HelperUnitWritten /\ AsWritten =>
        LET shapes == ReachableShapes
            helpers == EmittedHelpers
        IN /\ \A i, j \in DOMAIN subtypes :
                 i < j => SigLess(subtypes[i].key, subtypes[j].key)
           /\ [i \in DOMAIN helpers |-> helpers[i].ser.sig]
                 = [i \in DOMAIN subtypes |-> subtypes[i].key]
           /\ \A i, j \in DOMAIN helpers :
                 i < j => SigLess(helpers[i].ser.sig, helpers[j].ser.sig)
           /\ TableKeys(subtypes) = {mangle_type(shapes[k]) : k \in DOMAIN shapes}
           /\ \A k \in DOMAIN shapes :
                 BTreeMapInsert(subtypes, mangle_type(shapes[k]), shapes[k]) = subtypes
           /\ \A order \in Orders(Len(registry)) : TableFrom(<<>>, order, 1) = subtypes

\* helpers were written for two containers, one of them for a shape that only
\* the second container holds and that sorts before a shape of the first
C14_Witness ==
    /\ pc = "done"
    /\ Len(registry) = 2
    /\ LET first == TableKeys(TableFrom(<<>>, <<1>>, 1))
       IN \E i, j \in DOMAIN subtypes :
             /\ i < j
             /\ subtypes[i].key \notin first
             /\ subtypes[j].key \in first
    /\ Len(EmittedHelpers) = Len(subtypes)


\* output() has returned, or has panicked
Terminated == OutputReturned \/ pc = "panicked"

\* the Formats nested directly in a composite shape
DirectParts(shape) ==
    CASE shape.tag \in {"Option", "Seq"} -> <<shape.of>>
      [] shape.tag = "TupleArray" -> <<shape.content>>
      [] shape.tag = "Map" -> <<shape.key, shape.value>>
      [] shape.tag = "Tuple" -> shape.items

\* the statements and expressions of a helper pair that handle its parts
HelperCalls(helper) ==
    CASE helper.ser.shape \in {"Option", "Seq", "TupleArray"} ->
            <<[ser |-> helper.ser.body.inner, de |-> helper.de.body.inner]>>
      [] helper.ser.shape = "Map" ->
            <<[ser |-> helper.ser.body.key, de |-> helper.de.body.key],
              [ser |-> helper.ser.body.value, de |-> helper.de.body.value]>>
      [] helper.ser.shape = "Tuple" ->
            [i \in DOMAIN helper.ser.body.stmts |->
                [ser |-> helper.ser.body.stmts[i], de |-> helper.de.body.items[i]]]

\* a named reference is emitted as one call of the named type's own serialize
\* and deserialize
IsCallOf(call, name) ==
    /\ call.ser.kind = "named"
    /\ call.ser.fn = <<"serialize">>
    /\ call.de.kind = "named"
    /\ call.de.fn = <<"deserialize">>
    /\ call.de.qual = <<name>>

NamedReferencesAreCalls ==
    HelperUnitWritten /\ AsWritten =>
        LET classes == EmittedClasses
            helpers == EmittedHelpers
            declaredClasses == DeclaredClasses
            shapes == ReachableShapes
        IN /\ config.serialization =>
                 \A c \in DOMAIN declaredClasses :
                    LET declared == declaredClasses[c]
                        class == ClassIn(classes, declared.class)
                    IN /\ Len(class.serialize[1].stmts) = Len(declared.formats)
                       /\ Len(class.deserialize[1].reads) = Len(declared.formats)
                       /\ \A f \in DOMAIN declared.formats :
                             declared.formats[f].tag = "TypeName" =>
                                /\ IsCallOf([ser |-> class.serialize[1].stmts[f],
                                             de |-> class.deserialize[1].reads[f].expr],
                                            declared.formats[f].name)
                                /\ class.serialize[1].stmts[f].arg = declared.names[f]
           /\ \A k \in DOMAIN shapes :
                 \A h \in HelpersIn(helpers, mangle_type(shapes[k])) :
                    LET parts == DirectParts(shapes[k])
                        calls == HelperCalls(helpers[h])
                    IN /\ Len(calls) = Len(parts)
                       /\ \A i \in DOMAIN parts :
                             parts[i].tag = "TypeName" =>
                                IsCallOf(calls[i], parts[i].name)
           /\ Len(subtypes) <= Len(shapes)
           /\ \A j \in DOMAIN subtypes : \E k \in DOMAIN shapes : subtypes[j].value = shapes[k]

(***************************************************************************)
(* C15: generation terminates for every registry, those whose containers   *)
(* refer to themselves or to each other by name included; and a named      *)
(* reference is emitted as one call of that type's serialize/deserialize,  *)
(* in the containers and in the helpers, the helper table holding only the *)
(* shapes written in the registry's own Formats.                           *)
(***************************************************************************)
C15_Terminates == []NamedReferencesAreCalls /\ <>Terminated

\* output() returned for a registry of two containers that refer to each other,
\* one of them to itself too
C15_Witness ==
    /\ pc = "done"
    /\ config.serialization
    /\ [i \in DOMAIN registry |-> registry[i].name] = <<"Link", "Node">>
    /\ \E h \in HelpersOf(<<"option", "Node">>) :
          EmittedHelpers[h].ser.body.inner.kind = "named"
    /\ \E h \in HelpersOf(<<"option", "Link">>) :
          EmittedHelpers[h].de.body.inner.qual = <<"Link">>
    /\ Len(subtypes) = 2


\* a placeholder (Format::Variable at any depth, or VariantFormat::Variable) is
\* among the registry's containers
RegistryHoldsPlaceholder ==
    \E i \in DOMAIN registry : visit_container_err(registry[i].format)

\* the message of the panic that ends output_container on this container:
\* quote_type's panic!("unexpected value") (line 336) on a field, or
\* output_variant's panic!("incorrect value") (line 1067) on a variant
panic_message(format) ==
    IF format.tag = "Enum"
    THEN LET first == CHOOSE i \in DOMAIN format.variants :
                         /\ output_variant_panics(format.variants[i].value)
                         /\ \A j \in 1..(i - 1) :
                               ~output_variant_panics(format.variants[j].value)
         IN IF variant_panics(format.variants[first].value)
            THEN "incorrect value" ELSE "unexpected value"
    ELSE "unexpected value"

\* what the call of output() came to: Ok(()), or a panic with its message (the
\* thread unwinds; no Result is returned)
Outcome ==
    CASE OutputReturned -> [kind |-> "Ok", message |-> "none"]
      [] pc = "panicked" /\ files[Len(files)].kind = "container" ->
            [kind |-> "panic", message |-> panic_message(registry[idx].format)]
      [] pc = "panicked" ->
            [kind |-> "panic", message |-> "called Result::unwrap() on an Err value"]
      [] OTHER -> [kind |-> "running", message |-> "none"]

\* the classes whose field declarations hold a placeholder
PlaceholderClasses ==
    UNION {IF registry[i].format.tag = "Enum"
           THEN {variant_class_name(registry[i].name, registry[i].format.variants[v].name) :
                    v \in {w \in DOMAIN registry[i].format.variants :
                              fields_panic(variant_fields(registry[i].format.variants[w].value))}}
           ELSE IF fields_panic(container_fields(registry[i].format))
                THEN {<<registry[i].name>>} ELSE {} :
           i \in DOMAIN registry}

\* of a class whose fields hold a placeholder only the header and the fields
\* before the placeholder are written: no declaration of the placeholder field,
\* and no constructor, codec or JSON member of the class
NothingEmittedForPlaceholder ==
    \A c \in DOMAIN EmittedClasses :
       /\ EmittedClasses[c].name \in PlaceholderClasses <=> EmittedClasses[c].kind = "partial"
       /\ EmittedClasses[c].kind # "enum" =>
             \A f \in DOMAIN EmittedClasses[c].fields :
                ~Panicked(EmittedClasses[c].fields[f].type)

(***************************************************************************)
(* C16: when a placeholder is among the registry's Formats, generation     *)
(* never completes, ends with an "UnresolvedFormat" error outcome, and     *)
(* writes no type, codec or JSON member for the placeholder.               *)
(***************************************************************************)
C16_PlaceholderIsAnError ==
    RegistryHoldsPlaceholder =>
        /\ ~OutputReturned
        /\ Terminated => Outcome = [kind |-> "Err", message |-> "UnresolvedFormat"]
        /\ NothingEmittedForPlaceholder

\* what does hold: generation on a placeholder never returns Ok and writes
\* nothing for the placeholder field; it ends in a panic, the class begun
C16_PlaceholderPanics ==
    RegistryHoldsPlaceholder =>
        /\ ~OutputReturned
        /\ Terminated =>
              /\ Outcome.kind = "panic"
              /\ Outcome.message \in {"unexpected value", "incorrect value"}
        /\ NothingEmittedForPlaceholder

\* generation has ended on a placeholder nested in a field, after a file was written
C16_Ended ==
    /\ Terminated
    /\ "Hole" \in {registry[i].name : i \in DOMAIN registry}
    /\ Outcome = [kind |-> "panic", message |-> "unexpected value"]
    /\ Len(files) >= 2

\* generation has ended on a placeholder variant
C16_EndedOnVariant ==
    /\ Terminated
    /\ Outcome = [kind |-> "panic", message |-> "incorrect value"]


\* the helper unit defines the pair serialize_<sig> / deserialize_<sig>
HelperPairDefined(helpers, sig) ==
    \E i \in DOMAIN helpers : helpers[i].ser.sig = sig /\ helpers[i].de.sig = sig

\* the calls an emitted class makes on its fields, in serialize and in deserialize
ClassCalls(class) ==
    IF class.kind = "enum" \/ class.serialize = <<>> THEN <<>>
    ELSE [f \in DOMAIN class.serialize[1].stmts |->
             [ser |-> class.serialize[1].stmts[f],
              de |-> class.deserialize[1].reads[f].expr]]

\* both halves of a call that goes to TraitHelpers name a defined pair
CallsDefinedHelper(call, helpers) ==
    /\ call.ser.kind = "helper" => HelperPairDefined(helpers, call.ser.fn)
    /\ call.de.kind = "helper" => HelperPairDefined(helpers, call.de.fn)

(***************************************************************************)
(* C17: helper closure.  Every call TraitHelpers.serialize_<sig> or        *)
(* TraitHelpers.deserialize_<sig> in the emitted code, in the serialize /  *)
(* deserialize of a container or variant class and in the body of a helper *)
(* (nested shapes), names a pair the helper unit of the same run defines.  *)
(***************************************************************************)
C17_HelperClosure ==
    HelperUnitWritten /\ AsWritten =>
        LET classes == EmittedClasses
            helpers == EmittedHelpers
        IN /\ \A c \in DOMAIN classes :
                 \A f \in DOMAIN ClassCalls(classes[c]) :
                    CallsDefinedHelper(ClassCalls(classes[c])[f], helpers)
           /\ \A h \in DOMAIN helpers :
                 \A i \in DOMAIN HelperCalls(helpers[h]) :
                    CallsDefinedHelper(HelperCalls(helpers[h])[i], helpers)

\* the helper of a sequence of optionals calls the helper of the optional, which no
\* field calls, and a class calls the helper of the sequence
C17_Witness ==
    /\ pc = "done"
    /\ config.serialization
    /\ \E h \in HelpersOf(<<"vector", "option", "bool">>) :
          /\ EmittedHelpers[h].ser.body.inner.kind = "helper"
          /\ EmittedHelpers[h].ser.body.inner.fn = <<"option", "bool">>
          /\ EmittedHelpers[h].de.body.inner.fn = <<"option", "bool">>
    /\ HelperPairDefined(EmittedHelpers, <<"option", "bool">>)
    /\ \E c \in DOMAIN EmittedClasses :
          \E f \in DOMAIN ClassCalls(EmittedClasses[c]) :
             /\ ClassCalls(EmittedClasses[c])[f].ser.kind = "helper"
             /\ ClassCalls(EmittedClasses[c])[f].ser.fn = <<"vector", "option", "bool">>
             /\ ClassCalls(EmittedClasses[c])[f].de.fn = <<"vector", "option", "bool">>
    /\ ~\E c \in DOMAIN EmittedClasses :
          \E f \in DOMAIN ClassCalls(EmittedClasses[c]) :
             ClassCalls(EmittedClasses[c])[f].ser.fn = <<"option", "bool">>


\* the classes written for the variants of the enum class: those that extend it
VariantClasses(classes, enum) ==
    {c \in DOMAIN classes : classes[c].kind = "class" /\ classes[c].base = enum.name}

CaseTargets(dispatcher) == {dispatcher.cases[i].target : i \in DOMAIN dispatcher.cases}

\* the dispatcher has one case per variant class, and the class a case hands
\* over to carries the tag of the case
DispatcherMatchesClasses(classes, enum, dispatcher) ==
    /\ CaseTargets(dispatcher) = {classes[c].name : c \in VariantClasses(classes, enum)}
    /\ Len(dispatcher.cases) = Cardinality(VariantClasses(classes, enum))
    /\ \A i \in DOMAIN dispatcher.cases :
          \A c \in VariantClasses(classes, enum) :
             classes[c].name = dispatcher.cases[i].target =>
                /\ classes[c].serialize[1].tag = <<dispatcher.cases[i].index>>
                /\ TagWrites(classes[c].serialize[1].body) = {1}
                /\ Literal(classes[c].serialize[1].body[1].arg) = dispatcher.cases[i].index
                /\ IF dispatcher.cases[i].op = "load"
                   THEN classes[c].deserialize[1].op = "load"
                   ELSE /\ dispatcher.cases[i].op = "loadJson"
                        /\ classes[c].from_json.op = "loadJson"
                        /\ \E e \in DOMAIN classes[c].to_json.entries :
                              /\ classes[c].to_json.entries[e].key = <<"type">>
                              /\ classes[c].to_json.entries[e].expr
                                    = Decimal(dispatcher.cases[i].index)

(***************************************************************************)
(* C18 as claimed: every emitted enum has a binary dispatcher and a JSON   *)
(* dispatcher, and the targets of each are exactly the variant classes     *)
(* written for the enum, each carrying the tag of its case.                *)
(***************************************************************************)
C18_EveryEnumDispatches ==
    pc = "done" /\ AsWritten =>
        LET classes == EmittedClasses
        IN \A r \in DOMAIN registry :
              registry[r].format.tag = "Enum" =>
                 LET enum == ClassIn(classes, <<registry[r].name>>)
                 IN /\ enum.dispatcher # <<>>
                    /\ enum.json_dispatcher # <<>>
                    /\ DispatcherMatchesClasses(classes, enum, enum.dispatcher[1])
                    /\ DispatcherMatchesClasses(classes, enum, enum.json_dispatcher[1])

(***************************************************************************)
(* C18: for every enum emitted with serialization on and every tag t of    *)
(* its variant map, the case for t of the binary dispatcher and of the     *)
(* JSON dispatcher hands over to the class <Enum><Variant>Item written for *)
(* that variant, whose serialize writes t; the targets of each dispatcher  *)
(* are exactly the variant classes written.  An enum emitted with          *)
(* serialization off has neither dispatcher: its variant classes are       *)
(* written all the same, one per tag, with no serialize.                   *)
(***************************************************************************)
C18_DispatcherMatchesVariants ==
    /\ pc = "done" /\ AsWritten /\ ~config.serialization =>
          LET classes == EmittedClasses
          IN \A r \in DOMAIN registry :
                registry[r].format.tag = "Enum" =>
                   LET variants == registry[r].format.variants
                       enum == ClassIn(classes, <<registry[r].name>>)
                   IN /\ enum.kind = "enum"
                      /\ enum.dispatcher = <<>>
                      /\ enum.json_dispatcher = <<>>
                      /\ {classes[c].name : c \in VariantClasses(classes, enum)}
                            = {<<registry[r].name, variants[v].name, "Item">> :
                                  v \in DOMAIN variants}
                      /\ Cardinality(VariantClasses(classes, enum)) = Len(variants)
                      /\ \A c \in VariantClasses(classes, enum) :
                            /\ classes[c].serialize = <<>>
                            /\ classes[c].from_json.op = "loadJson"
    /\ pc = "done" /\ AsWritten /\ config.serialization =>
          LET classes == EmittedClasses
          IN \A r \in DOMAIN registry :
                registry[r].format.tag = "Enum" =>
                   LET variants == registry[r].format.variants
                       enum == ClassIn(classes, <<registry[r].name>>)
                   IN /\ enum.kind = "enum"
                      /\ DispatcherMatchesClasses(classes, enum, enum.dispatcher[1])
                      /\ DispatcherMatchesClasses(classes, enum, enum.json_dispatcher[1])
                      /\ \A v \in DOMAIN variants :
                            \A d \in {enum.dispatcher[1], enum.json_dispatcher[1]} :
                               \E i \in DOMAIN d.cases :
                                  /\ d.cases[i].index = variants[v].index
                                  /\ d.cases[i].target =
                                        <<registry[r].name, variants[v].name, "Item">>
                                  /\ \A j \in DOMAIN d.cases :
                                        d.cases[j].index = variants[v].index => j = i

\* an enum of four variants with tags 0, 1, 3, 4 was emitted with serialization
\* on: both dispatchers hold four cases, and the case for 3 hands over to the
\* class of the struct variant, whose serialize writes 3
C18_Witness ==
    /\ pc = "done" /\ AsWritten /\ config.serialization
    /\ \E r \in DOMAIN registry : registry[r].name = "Shape"
    /\ LET enum == ClassIn(EmittedClasses, <<"Shape">>)
           seg == ClassIn(EmittedClasses, <<"Shape", "Seg", "Item">>)
       IN /\ Cardinality(VariantClasses(EmittedClasses, enum)) = 4
          /\ \A d \in {enum.dispatcher[1], enum.json_dispatcher[1]} :
                /\ Len(d.cases) = 4
                /\ d.cases[3].index = 3
                /\ d.cases[3].target = <<"Shape", "Seg", "Item">>
          /\ seg.serialize[1].tag = <<3>>
          /\ seg.serialize[1].body[1] = variant_index_statement(3)


(***************************************************************************)
(* Emitter nesting state: the calls of out.indent(), out.unindent() and    *)
(* the pushes and pops of current_namespace that emitting a container      *)
(* makes, in program order.                                                *)
(***************************************************************************)
Indent == [op |-> "indent", name |-> <<>>]
Unindent == [op |-> "unindent", name |-> <<>>]

\* lines 410-413
enter_class(name) == <<Indent, [op |-> "push", name |-> name]>>

\* lines 415-418
leave_class == <<Unindent, [op |-> "pop", name |-> <<>>]>>

\* output_struct_or_variant_container: enter_class (696); the constructor
\* (721, 728); serialize (734, 745) and deserialize (769, 790) when codecs are
\* on; operator == (802, 835); hashCode (840, 850); fromJson when there are
\* fields (860, 872); toJson unless redefined (882, 891); line 897; leave_class
output_struct_or_variant_container_nesting(conf, name, fields, redefine) ==
    enter_class(name)
    \o <<Indent, Unindent>>
    \o (IF conf.serialization THEN <<Indent, Unindent, Indent, Unindent>> ELSE <<>>)
    \o <<Indent, Unindent>>
    \o <<Indent, Unindent>>
    \o (IF fields # <<>> THEN <<Indent, Unindent>> ELSE <<>>)
    \o (IF ~redefine THEN <<Indent, Unindent>> ELSE <<>>)
    \o <<Unindent>>
    \o leave_class

\* output_enum_container: enter_class (947); the dispatcher (957, 964, 977, 979)
\* and fromJson (995, 996, 1009, 1011) when codecs are on; lines 1016-1017;
\* output_variants; leave_class (1022)
output_enum_container_nesting(conf, name, variants) ==
    enter_class(<<name>>)
    \o (IF conf.serialization
        THEN <<Indent, Indent, Unindent, Unindent, Indent, Indent, Unindent, Unindent>>
        ELSE <<>>)
    \o <<Unindent, Unindent>>
    \o Flatten([i \in DOMAIN variants |->
                   output_struct_or_variant_container_nesting(conf,
                       variant_class_name(name, variants[i].name),
                       variant_fields(variants[i].value), FALSE)])
    \o leave_class

output_container_nesting(conf, name, format) ==
    IF format.tag = "Enum" THEN output_enum_container_nesting(conf, name, format.variants)
    ELSE output_struct_or_variant_container_nesting(conf, <<name>>,
             container_fields(format), format.tag = "NewTypeStruct")

\* how many of the first n operations are calls of op
CountOf(ops, n, op) == Cardinality({k \in 1..n : ops[k].op = op})

\* current_namespace after the operations: the entries pushed and not popped
\* since, oldest first (Vec::pop on an empty vector changes nothing)
NamespaceAfter(namespace, ops) ==
    LET all == [k \in DOMAIN namespace |-> [op |-> "push", name |-> namespace[k]]] \o ops
        kept == {k \in DOMAIN all :
                    /\ all[k].op = "push"
                    /\ \A m \in k..Len(all) :
                          Cardinality({p \in (k + 1)..m : all[p].op = "pop"})
                             < Cardinality({p \in k..m : all[p].op = "push"})}
    IN [i \in 1..Cardinality(kept) |->
           all[CHOOSE k \in kept : Cardinality({q \in kept : q < k}) = i - 1].name]

\* the counts of indent and unindent calls and current_namespace after the
\* first n operations
NestingAfter(entry, ops, n) ==
    [indents |-> entry.indents + CountOf(ops, n, "indent"),
     unindents |-> entry.unindents + CountOf(ops, n, "unindent"),
     namespace |-> NamespaceAfter(entry.namespace, SubSeq(ops, 1, n))]

\* lines 45-50 and 152-161: a container's emitter starts with a fresh writer
\* and the namespace made of the module name
NestingAtEntry ==
    [indents |-> 0, unindents |-> 0, namespace |-> <<<<config.module_name>>>>]

\* output_container has returned for the r-th container of the registry
ContainerEmitted(r) ==
    /\ Len(files) >= r + 1
    /\ files[r + 1].kind = "container"
    /\ files[r + 1].complete

(***************************************************************************)
(* C19: while a container is emitted the unindent calls made so far never  *)
(* outnumber the indent calls made so far, and when output_container       *)
(* returns the indent and unindent calls cancel out and current_namespace  *)
(* is what it was at entry.                                                *)
(***************************************************************************)
C19_NestingBalanced ==
    AsWritten =>
        \A r \in DOMAIN registry :
           ContainerEmitted(r) =>
              LET ops == output_container_nesting(config, registry[r].name, registry[r].format)
                  atReturn == NestingAfter(NestingAtEntry, ops, Len(ops))
              IN /\ \A n \in 0..Len(ops) :
                       NestingAfter(NestingAtEntry, ops, n).unindents
                          <= NestingAfter(NestingAtEntry, ops, n).indents
                 /\ atReturn.indents = atReturn.unindents
                 /\ atReturn.namespace = NestingAtEntry.namespace

\* what does hold: current_namespace is restored, and the unindent calls outnumber
\* the indent calls by one per class written, and by one more for an enum
C19_NamespaceRestored ==
    AsWritten =>
        \A r \in DOMAIN registry :
           ContainerEmitted(r) =>
              LET ops == output_container_nesting(config, registry[r].name, registry[r].format)
                  atReturn == NestingAfter(NestingAtEntry, ops, Len(ops))
              IN /\ atReturn.namespace = NestingAtEntry.namespace
                 /\ atReturn.unindents = atReturn.indents + Len(files[r + 1].classes)
                       + (IF registry[r].format.tag = "Enum" THEN 1 ELSE 0)

\* a struct and an enum have been emitted
C19_Emitted ==
    /\ \E r \in DOMAIN registry : ContainerEmitted(r) /\ registry[r].format.tag = "Enum"
    /\ \E r \in DOMAIN registry : ContainerEmitted(r) /\ registry[r].format.tag = "Struct"

====
